---- MODULE Spec2Model ----
(***************************************************************************)
(* Broker Execution Core of RoboTrader_quant.                              *)
(*                                                                         *)
(*   core/order_manager.py   OrderManager: order store, monitoring loop,   *)
(*                           status reconciliation, timeouts, Sweeper      *)
(*   api/kis_api_manager.py  KISAPIManager.get_order_status / cancel_order *)
(*   api/kis_auth.py         rate limiter, token manager, _url_fetch       *)
(*                                                                         *)
(* Time is counted in seconds; the rate limiter's clock and the gateway's  *)
(* backoff delays are in milliseconds.  A monitoring cycle, a submit and a *)
(* gateway attempt take no model time: the clock advances only while the   *)
(* process concerned sleeps.                                               *)
(***************************************************************************)
EXTENDS Integers, Sequences, FiniteSets, TLC

\* ------------------------------------------------------------------ bounds
MaxQty == 2          \* largest quantity in an order or in a broker row
MaxRows == 2         \* most fill-history rows of one order id in a response
LifeQty == 1         \* largest quantity in the order life cycle (SpecOrders)
LifeRows == 1        \* most fill-history rows of a response in SpecOrders
MaxTime == 780       \* horizon of the order life cycle's clock, seconds
MaxSubmitTime == 0   \* orders are submitted no later than this
MaxGrants == 3       \* granted calls of the rate limiter in one behaviour
MaxRlTime == 180     \* horizon of the rate limiter's clock, milliseconds
RecursionLimit == 3  \* nesting depth at which Python raises RecursionError
MaxAttempts == 4     \* gateway requests (loop iterations) in one behaviour
MaxDeskTime == 200   \* horizon of the clock while orders are placed and cancelled
MaxRaceCycles == 2   \* monitoring cycles while a cancel from outside is in flight
MaxSweepLog == 12    \* most orders in the terminal log when the Sweeper runs
MaxLoopCycles == 2   \* monitoring cycles after the first in SpecLoop
MaxTokens == 3       \* tokens issued or saved in one behaviour of SpecAuth

\* ------------------------------------------------------- program constants
MONITOR_SLEEP == 3           \* asyncio.sleep(3) between monitoring cycles
CLOSED_SLEEP == 60           \* asyncio.sleep(60) while the market is closed
UNKNOWN_TIMEOUT == 300       \* elapsed_time > 300 -> TIMEOUT
FOUR_CANDLES == 720          \* timedelta(minutes=12)
CANDLE_SECONDS == 180        \* 3-minute decision bar
SWEEP_WINDOW == 600          \* Sweeper: completed at most 600 s ago
SWEEP_LAST == 10             \* Sweeper: completed_orders[-10:]
RESTORE_BASE == 180          \* max(30, 180 - elapsed_seconds)
RESTORE_FLOOR == 30

MAX_RETRIES == 3             \* _max_retries
RETRY_DELAY_BASE == 1500     \* _retry_delay_base = 1.5 s, in milliseconds
RATE_ERRORS_ESCALATE == 10   \* more rate-limit errors than this: base * 1.5
PROACTIVE_REFRESH == 82800   \* reAuth: 23 hours, in seconds
TOKEN_VALIDITY == 86400      \* validity of an issued token: 24 hours
MIN_API_INTERVAL == 60       \* _min_api_interval = 0.06 s, in milliseconds

buy_timeout_seconds == 180   \* config.order_management.buy_timeout_seconds
sell_timeout_seconds == 300  \* config.order_management.sell_timeout_seconds

NoTime == -1                 \* None for a datetime

OrderIds == {1, 2}
OrderTypes == {"BUY", "SELL"}
Statuses == {"PENDING", "PARTIAL", "FILLED", "CANCELLED", "TIMEOUT"}
Terminal == {"FILLED", "CANCELLED", "TIMEOUT"}
TimeoutChoices == {180, 750}   \* timeout_seconds of a submit (argument or config)
CancelOutcomes == {"ok", "rejected", "not_found", "none", "raises"}

VARIABLES
    \* ---- order store (OrderManager)
    now,               \* now_kst(), seconds since the market opened
    market_close,      \* instant at which is_market_open() turns false
    horizon,           \* model horizon of this behaviour's clock
    ids,               \* order ids the broker may hand out in this behaviour
    orders,            \* order id -> Order object (or NoOrder)
    pending_orders,    \* keys of self.pending_orders, in insertion order
    completed_orders,  \* self.completed_orders (order ids, oldest first)
    order_timeouts,    \* self.order_timeouts: id -> deadline (NoTime: no entry)
    mon_pc,            \* position of start_monitoring / _monitor_pending_orders
    wake_at,           \* when the monitoring loop's sleep ends
    cycle_time,        \* current_time of the running cycle
    to_sweep,          \* recent_completed still to re-verify in this cycle
    to_process,        \* orders_to_process still to handle in this cycle
    timeout_seconds,   \* id -> the timeout_seconds its submit used (history)
    last,              \* the last operation and its inputs (history)
    \* ---- rate limiter (kis_auth._wait_for_api_limit), time in milliseconds
    rl_now,            \* now_kst().timestamp()
    api_lock,          \* holder of _api_lock (0: free)
    last_api_call_time,\* _last_api_call_time (NoTime: None)
    rl_pc,             \* caller -> "idle" | "sleep" | "write"
    rl_wake,           \* caller -> end of its time.sleep(wait_time)
    grants,            \* the values written to _last_api_call_time, in order
    \* ---- token manager and gateway (kis_auth), time in seconds
    clock,             \* now_kst()
    app_keys,          \* APP_KEY / SECRET_KEY as configured
    kis,               \* module globals of kis_auth and the token file
    api_stats,         \* _api_stats
    gw,                \* the logical call of _url_fetch in progress
    gw_last,           \* the last gateway step and its inputs (history)
    \* ---- coroutines of the event loop besides the monitoring loop
    cancel_call,       \* the cancel_order(order_id) awaiting the broker, if any
    check_call,        \* the _check_order_status awaiting the broker, if any
    demoted_at         \* id -> current_time of its Sweeper demotion, for 30 s (history)

ordVars == <<now, market_close, horizon, ids, orders, pending_orders,
             completed_orders, order_timeouts, mon_pc, wake_at, cycle_time,
             to_sweep, to_process, timeout_seconds, last>>

rlVars == <<rl_now, api_lock, last_api_call_time, rl_pc, rl_wake, grants>>

gwVars == <<clock, app_keys, kis, api_stats, gw, gw_last>>

raceVars == <<cancel_call, check_call, demoted_at>>

vars == <<ordVars, rlVars, gwVars, raceVars>>

\* ----------------------------------------------------------------- helpers
Max(a, b) == IF a >= b THEN a ELSE b

SeqToSet(s) == {s[i] : i \in 1..Len(s)}

RemoveFirst(s, x) ==
    IF \E i \in 1..Len(s) : s[i] = x
    THEN LET i == CHOOSE j \in 1..Len(s) : s[j] = x /\ \A k \in 1..(j-1) : s[k] # x
         IN  SubSeq(s, 1, i-1) \o SubSeq(s, i+1, Len(s))
    ELSE s

NoOrder == [status |-> "NONE", order_type |-> "NONE", quantity |-> 0,
            filled_quantity |-> 0, remaining_quantity |-> 0, timestamp |-> 0,
            order_3min_candle_time |-> NoTime]

\* ------------------------------------------------------- broker responses
\* A quantity field is modelled by the number the code parses from it: a
\* missing, '' or '-' field parses to 0 in the fill-history branch and makes
\* the open-orders branch return None, exactly as an explicit 0 does.
\* Rows are those whose odno is the queried order id (the code filters both
\* listings by odno before it reads anything else).
OpenRow == [ord_qty : 0..MaxQty, rmn_qty : 0..MaxQty]
FillRow == [tot_ccld_qty : 0..MaxQty, ord_qty : 0..MaxQty]
FillRowSeqs == UNION {[1..n -> FillRow] : n \in 0..MaxRows}

\* ok = FALSE: _call_api_with_retry returned None (or raised)
OpenResps == {[ok |-> FALSE, rows |-> <<>>], [ok |-> TRUE, rows |-> <<>>]}
             \cup {[ok |-> TRUE, rows |-> <<r>>] : r \in OpenRow}
DailyResps == {[ok |-> FALSE, rows |-> <<>>]}
              \cup {[ok |-> TRUE, rows |-> rs] : rs \in FillRowSeqs}

StatusData(tot, rmn, ord, cncl, unfilled, unknown) ==
    [none |-> FALSE, tot_ccld_qty |-> tot, rmn_qty |-> rmn, ord_qty |-> ord,
     cncl_yn |-> cncl, actual_unfilled |-> unfilled, status_unknown |-> unknown]

NoneData == [none |-> TRUE, tot_ccld_qty |-> 0, rmn_qty |-> 0, ord_qty |-> 0,
             cncl_yn |-> "N", actual_unfilled |-> FALSE, status_unknown |-> FALSE]

\* total_filled_qty: sum of the rows' executed quantities
RECURSIVE TotalFilled(_)
TotalFilled(rows) ==
    IF rows = <<>> THEN 0 ELSE Head(rows).tot_ccld_qty + TotalFilled(Tail(rows))

\* order_qty: the ord_qty of the last row that has one > 0, else 0
RECURSIVE EchoedOrderQty(_)
EchoedOrderQty(rows) ==
    IF rows = <<>> THEN 0
    ELSE IF rows[Len(rows)].ord_qty > 0 THEN rows[Len(rows)].ord_qty
    ELSE EchoedOrderQty(SubSeq(rows, 1, Len(rows) - 1))

\* KISAPIManager.get_order_status, branch 1: the id is in the open-orders list
\* (the first variant takes the filled quantity to be ordered minus remaining)
OpenBranch_subtract(open, daily) ==
    LET total_order_qty == open.rows[1].ord_qty
        remaining_qty == open.rows[1].rmn_qty
        filled_qty == Max(0, total_order_qty - remaining_qty)
    IN  IF total_order_qty <= 0 THEN NoneData
        ELSE StatusData(filled_qty, remaining_qty, total_order_qty, "N", FALSE, FALSE)

OpenBranch(open, daily) ==
    LET total_order_qty == open.rows[1].ord_qty
        remaining_qty == open.rows[1].rmn_qty
        filled_qty == IF daily.ok /\ daily.rows # <<>>
                      THEN TotalFilled(daily.rows) ELSE 0
    IN  IF total_order_qty <= 0 THEN NoneData
        ELSE StatusData(filled_qty, remaining_qty, total_order_qty, "N", FALSE, FALSE)

\* branch 2: not in open-orders, fill-history rows exist
\* (the first variant takes rows that sum to 0 for a cancelled order)
FillBranch_zeroIsCancelled(daily) ==
    LET total_filled_qty == TotalFilled(daily.rows)
        order_qty == EchoedOrderQty(daily.rows)
    IN  IF total_filled_qty = 0
        THEN StatusData(0, 0, 0, "Y", FALSE, TRUE)
        ELSE StatusData(total_filled_qty, Max(0, order_qty - total_filled_qty),
                        order_qty, "N", FALSE, FALSE)

FillBranch(daily) ==
    LET total_filled_qty == TotalFilled(daily.rows)
        order_qty == EchoedOrderQty(daily.rows)
    IN  IF total_filled_qty = 0 /\ order_qty > 0
        THEN StatusData(0, order_qty, order_qty, "N", TRUE, FALSE)
        ELSE StatusData(total_filled_qty, Max(0, order_qty - total_filled_qty),
                        order_qty, "N", FALSE, FALSE)

\* branch 3: in neither listing
UnknownBranch == StatusData(0, 0, 0, "Y", FALSE, TRUE)

get_order_status(open, daily) ==
    IF open.ok /\ open.rows # <<>> THEN OpenBranch(open, daily)
    ELSE IF daily.ok /\ daily.rows # <<>> THEN FillBranch(daily)
    ELSE UnknownBranch

\* every status_data get_order_status can hand to the order manager when the
\* listings hold at most LifeRows rows and quantities up to LifeQty
LifeOpenResps == {o \in OpenResps :
                    \A i \in 1..Len(o.rows) :
                        o.rows[i].ord_qty <= LifeQty /\ o.rows[i].rmn_qty <= LifeQty}
LifeDailyResps == {d \in DailyResps :
                     /\ Len(d.rows) <= LifeRows
                     /\ \A i \in 1..Len(d.rows) :
                           d.rows[i].tot_ccld_qty <= LifeQty /\ d.rows[i].ord_qty <= LifeQty}
StatusOutcomes ==
    {get_order_status(o, d) : o \in LifeOpenResps, d \in LifeDailyResps}

\* ------------------------------------------------------------ order store
Order(type, qty, t, candle) ==
    [status |-> "PENDING", order_type |-> type, quantity |-> qty,
     filled_quantity |-> 0, remaining_quantity |-> qty, timestamp |-> t,
     order_3min_candle_time |-> candle]

\* OrderManager._get_current_3min_candle_time: the end of the running
\* 3-minute bar counted from the market open, clamped to the market close
CurrentCandleTime(t, close) ==
    LET candle_time == ((t \div CANDLE_SECONDS) + 1) * CANDLE_SECONDS
    IN  IF candle_time > close THEN close ELSE candle_time

\* OrderManager._has_4_candles_passed: the real time t against the decision
\* bar plus 12 minutes (the first variant turns true one instant late)
Has4CandlesPassed_after(candle, t) ==
    IF candle = NoTime THEN FALSE ELSE t > candle + FOUR_CANDLES

Has4CandlesPassed(candle, t) ==
    IF candle = NoTime THEN FALSE ELSE t >= candle + FOUR_CANDLES

\* utils.korean_time.is_market_open
IsMarketOpen(t, close) == t < close

\* what _check_order_status decides for order o on status_data sd at time t:
\* the order object afterwards, whether it is moved to completed_orders and
\* whether on_order_filled is called
Decision(o, moved, cb) == [order |-> o, moved |-> moved, filled_cb |-> cb]

\* the checks between the would-be FILLED condition and the FILLED
\* assignment (the first variant skips the echoed-quantity check)
FilledBranch_noEchoCheck(o1, sd) ==
    Decision([o1 EXCEPT !.status = "FILLED"], TRUE, TRUE)

FilledBranch(o1, sd) ==
    IF sd.ord_qty > 0 /\ sd.ord_qty # o1.quantity
    THEN Decision(o1, FALSE, FALSE)
    ELSE Decision([o1 EXCEPT !.status = "FILLED"], TRUE, TRUE)

UnknownDecision(o1, t) ==
    IF t - o1.timestamp > UNKNOWN_TIMEOUT
    THEN Decision([o1 EXCEPT !.status = "TIMEOUT"], TRUE, FALSE)
    ELSE Decision(o1, FALSE, FALSE)

\* (the first variant adds the reported filled quantity to the recorded one)
CheckDecision_accumulate(o, sd, t) ==
    IF sd.none THEN Decision(o, FALSE, FALSE)
    ELSE
      LET filled_qty == sd.tot_ccld_qty
          remaining_qty == sd.rmn_qty
          o1 == [o EXCEPT !.filled_quantity = @ + filled_qty,
                          !.remaining_quantity = remaining_qty]
      IN  IF sd.cncl_yn = "Y"
            THEN Decision([o1 EXCEPT !.status = "CANCELLED"], TRUE, FALSE)
          ELSE IF sd.status_unknown THEN UnknownDecision(o1, t)
          ELSE IF sd.actual_unfilled THEN Decision(o1, FALSE, FALSE)
          ELSE IF remaining_qty = 0 /\ filled_qty = o.quantity /\ filled_qty > 0
            THEN FilledBranch(o1, sd)
          ELSE IF filled_qty > 0 /\ remaining_qty > 0
            THEN IF filled_qty + remaining_qty = o.quantity
                 THEN Decision([o1 EXCEPT !.status = "PARTIAL"], FALSE, FALSE)
                 ELSE Decision(o1, FALSE, FALSE)
          ELSE Decision(o1, FALSE, FALSE)

CheckDecision(o, sd, t) ==
    IF sd.none THEN Decision(o, FALSE, FALSE)
    ELSE
      LET filled_qty == sd.tot_ccld_qty
          remaining_qty == sd.rmn_qty
          o1 == [o EXCEPT !.filled_quantity = filled_qty,
                          !.remaining_quantity = remaining_qty]
      IN  IF sd.cncl_yn = "Y"
            THEN Decision([o1 EXCEPT !.status = "CANCELLED"], TRUE, FALSE)
          ELSE IF sd.status_unknown THEN UnknownDecision(o1, t)
          ELSE IF sd.actual_unfilled THEN Decision(o1, FALSE, FALSE)
          ELSE IF remaining_qty = 0 /\ filled_qty = o.quantity /\ filled_qty > 0
            THEN FilledBranch(o1, sd)
          ELSE IF filled_qty > 0 /\ remaining_qty > 0
            THEN IF filled_qty + remaining_qty = o.quantity
                 THEN Decision([o1 EXCEPT !.status = "PARTIAL"], FALSE, FALSE)
                 ELSE Decision(o1, FALSE, FALSE)
          ELSE Decision(o1, FALSE, FALSE)

\* The four containers of the OrderManager as one value.
Store == [orders |-> orders, pending |-> pending_orders,
          completed |-> completed_orders, timeouts |-> order_timeouts]

InPending(S, id) == id \in SeqToSet(S.pending)

\* OrderManager._move_to_completed
\* (the first variant leaves the order's deadline in order_timeouts)
MoveToCompleted_keepsDeadline(S, id) ==
    IF InPending(S, id)
    THEN [S EXCEPT !.pending = RemoveFirst(@, id),
                   !.completed = Append(@, id)]
    ELSE S

MoveToCompleted(S, id) ==
    IF InPending(S, id)
    THEN [S EXCEPT !.pending = RemoveFirst(@, id),
                   !.completed = Append(@, id),
                   !.timeouts[id] = NoTime]
    ELSE S

SetStatus(S, id, st) == [S EXCEPT !.orders[id].status = st]

\* OrderManager._check_order_status on the status_data sd
CheckOrderStatus(S, id, sd, t) ==
    IF ~InPending(S, id) THEN S
    ELSE LET d == CheckDecision(S.orders[id], sd, t)
             S1 == [S EXCEPT !.orders[id] = d.order]
         IN  IF d.moved THEN MoveToCompleted(S1, id) ELSE S1

\* OrderManager.cancel_order; outcome is what the broker-side cancel did
\* (called: api_manager.cancel_order was invoked; the first variant sets the
\* status before it knows the outcome)
CancelOrder_statusFirst(S, id, outcome) ==
    IF ~InPending(S, id) THEN [store |-> S, success |-> FALSE, called |-> FALSE]
    ELSE IF outcome = "ok"
         THEN [store |-> MoveToCompleted(SetStatus(S, id, "CANCELLED"), id),
               success |-> TRUE, called |-> TRUE]
         ELSE [store |-> SetStatus(S, id, "CANCELLED"), success |-> FALSE,
               called |-> TRUE]

CancelOrder(S, id, outcome) ==
    IF ~InPending(S, id) THEN [store |-> S, success |-> FALSE, called |-> FALSE]
    ELSE IF outcome = "ok"
         THEN [store |-> MoveToCompleted(SetStatus(S, id, "CANCELLED"), id),
               success |-> TRUE, called |-> TRUE]
         ELSE [store |-> S, success |-> FALSE, called |-> TRUE]

\* OrderManager._handle_timeout; the first variant stops after the cancel
\* request, the second is the code's
HandleTimeout_cancelOnly(S, id, outcome) ==
    IF ~InPending(S, id) THEN S ELSE CancelOrder(S, id, outcome).store

HandleTimeout(S, id, outcome) ==
    IF ~InPending(S, id) THEN S
    ELSE LET c == CancelOrder(S, id, outcome)
         IN  IF c.success THEN c.store
             ELSE IF InPending(c.store, id)
                  THEN MoveToCompleted(SetStatus(c.store, id, "TIMEOUT"), id)
                  ELSE c.store

\* OrderManager._handle_4candle_timeout
Handle4CandleTimeout(S, id, outcome) ==
    IF ~InPending(S, id) THEN S
    ELSE LET c == CancelOrder(S, id, outcome)
         IN  IF c.success THEN c.store
             ELSE IF InPending(c.store, id)
                  THEN MoveToCompleted(SetStatus(c.store, id, "TIMEOUT"), id)
                  ELSE c.store

\* which timeout rule of _monitor_pending_orders fires for an order that is
\* still active after reconciliation
\* (the first variant never fires; the second is the code's test; of
\* FiredRule the first variant does not look whether the order is still
\* active after the check)
WallClockDue_never(timeout_time, current_time) == FALSE

WallClockDue(timeout_time, current_time) ==
    timeout_time # NoTime /\ current_time > timeout_time

CandleDue(o, t) ==
    o.order_type = "BUY" /\ o.order_3min_candle_time # NoTime
    /\ Has4CandlesPassed(o.order_3min_candle_time, t)

FiredRule_noRecheck(S, S1, id, current_time, t) ==
    IF WallClockDue(S.timeouts[id], current_time) THEN "wall"
    ELSE IF CandleDue(S1.orders[id], t) THEN "candle"
    ELSE "none"

FiredRule(S, S1, id, current_time, t) ==
    IF ~InPending(S1, id) THEN "none"
    ELSE IF WallClockDue(S.timeouts[id], current_time) THEN "wall"
    ELSE IF CandleDue(S1.orders[id], t) THEN "candle"
    ELSE "none"

\* one iteration of the for loop of _monitor_pending_orders
ProcessOrder(S, id, sd, outcome, current_time, t) ==
    IF ~InPending(S, id) THEN S          \* KeyError, caught per order
    ELSE LET S1 == CheckOrderStatus(S, id, sd, t)
             rule == FiredRule(S, S1, id, current_time, t)
         IN  IF rule = "wall" THEN HandleTimeout(S1, id, outcome)
             ELSE IF rule = "candle" THEN Handle4CandleTimeout(S1, id, outcome)
             ELSE S1

\* whether _check_order_status calls trading_manager.on_order_filled
FilledCallback(S, id, sd, t) ==
    InPending(S, id) /\ CheckDecision(S.orders[id], sd, t).filled_cb

\* how often _handle_timeout / _handle_4candle_timeout call
\* trading_manager.handle_order_timeout: in the branch of a failed cancel
\* after the forced TIMEOUT, and in the branch of a successful cancel when
\* pending_orders.get(order_id) still finds the order
TimeoutCallbacks(S, id, outcome) ==
    IF ~InPending(S, id) THEN 0
    ELSE LET c == CancelOrder(S, id, outcome)
             found == InPending(c.store, id)
         IN  (IF ~c.success /\ found THEN 1 ELSE 0)
             + (IF c.success /\ found THEN 1 ELSE 0)

\* the list comprehension of _check_false_positive_filled_orders
LastN(s, n) == IF Len(s) <= n THEN s ELSE SubSeq(s, Len(s) - n + 1, Len(s))

\* (the first variant does not filter by status)
RecentCompleted_anyStatus(S, current_time) ==
    SelectSeq(LastN(S.completed, SWEEP_LAST),
              LAMBDA id : /\ current_time - S.orders[id].timestamp <= SWEEP_WINDOW
                          /\ S.orders[id].order_type = "BUY")

RecentCompleted(S, current_time) ==
    SelectSeq(LastN(S.completed, SWEEP_LAST),
              LAMBDA id : /\ current_time - S.orders[id].timestamp <= SWEEP_WINDOW
                          /\ S.orders[id].status = "FILLED"
                          /\ S.orders[id].order_type = "BUY")

\* the Sweeper's test on the re-queried status
\* (the first variant does not look at the cancelled flag)
IsFalsePositive_ignoresCancelled(sd) ==
    /\ ~sd.none
    /\ (sd.tot_ccld_qty = 0 \/ sd.rmn_qty > 0 \/ sd.actual_unfilled)

IsFalsePositive(sd) ==
    /\ ~sd.none
    /\ (sd.tot_ccld_qty = 0 \/ sd.rmn_qty > 0 \/ sd.actual_unfilled)
    /\ sd.cncl_yn # "Y"

\* OrderManager._restore_false_positive_order
\* (the first variant has no floor under the remaining budget)
RestoreFalsePositive_noFloor(S, id, current_time) ==
    LET elapsed_seconds == current_time - S.orders[id].timestamp
        remaining_timeout == RESTORE_BASE - elapsed_seconds
    IN  [S EXCEPT !.completed = RemoveFirst(@, id),
                  !.orders[id].status = "PENDING",
                  !.pending = IF InPending(S, id) THEN @ ELSE Append(@, id),
                  !.timeouts[id] = current_time + remaining_timeout]

RestoreFalsePositive(S, id, current_time) ==
    LET elapsed_seconds == current_time - S.orders[id].timestamp
        remaining_timeout == Max(RESTORE_FLOOR, RESTORE_BASE - elapsed_seconds)
    IN  [S EXCEPT !.completed = RemoveFirst(@, id),
                  !.orders[id].status = "PENDING",
                  !.pending = IF InPending(S, id) THEN @ ELSE Append(@, id),
                  !.timeouts[id] = current_time + remaining_timeout]

SweepOrder(S, id, sd, current_time) ==
    IF IsFalsePositive(sd) THEN RestoreFalsePositive(S, id, current_time) ELSE S

\* place_buy_order / place_sell_order, broker accepted the order as id
\* (the first variant records no deadline)
PlaceOrder_noDeadline(S, id, type, qty, secs, t, close) ==
    [S EXCEPT !.orders[id] = Order(type, qty, t,
                     IF type = "BUY" THEN CurrentCandleTime(t, close) ELSE NoTime),
              !.pending = Append(@, id)]

PlaceOrder(S, id, type, qty, secs, t, close) ==
    [S EXCEPT !.orders[id] = Order(type, qty, t,
                     IF type = "BUY" THEN CurrentCandleTime(t, close) ELSE NoTime),
              !.pending = Append(@, id),
              !.timeouts[id] = t + secs]

\* ------------------------------------------------------- history variable
\* The last step taken and what it was given: op, the order id, the
\* status_data and the cancel outcome used, the order's status before the
\* step, the timeout rule that fired, and - where the raw broker listings
\* were drawn - whether the id was in open-orders, the number of its
\* fill-history rows and the sum of their executed quantities.
Op(op, id, sd, cancel, before, rule, in_open, rows, fill_sum) ==
    [op |-> op, id |-> id, sd |-> sd, cancel |-> cancel, before |-> before,
     rule |-> rule, in_open |-> in_open, rows |-> rows, fill_sum |-> fill_sum]

PlainOp(op, id) == Op(op, id, NoneData, "-", "NONE", "none", FALSE, 0, 0)

\* the record of one order's iteration of the monitoring loop: as Op, and
\* whether on_order_filled was called and how often handle_order_timeout was
OrderOp(id, sd, cancel, before, rule, filled_cb, timeout_cbs) ==
    [op |-> "order", id |-> id, sd |-> sd, cancel |-> cancel, before |-> before,
     rule |-> rule, in_open |-> FALSE, rows |-> 0, fill_sum |-> 0,
     filled_cb |-> filled_cb, timeout_cbs |-> timeout_cbs]

\* the record of a reconciliation of order 1 at time t, get_order_status
\* having returned sd: as Op, and also the store before the step and whether
\* on_order_filled / notify_order_filled were called
RECURSIVE RowsSum(_, _)
RowsSum(rows, n) == IF n = 0 THEN 0 ELSE rows[n].tot_ccld_qty + RowsSum(rows, n - 1)

ReconOp(op, sd, in_open, rows, fill_sum, t) ==
    [op |-> op, id |-> 1, sd |-> sd, cancel |-> "-",
     before |-> orders[1].status, rule |-> "none",
     in_open |-> in_open, rows |-> rows, fill_sum |-> fill_sum,
     prev |-> Store,
     filled_cb |-> InPending(Store, 1) /\ CheckDecision(orders[1], sd, t).filled_cb]

\* ------------------------------------------------------------ rate limiter
Callers == {1, 2, 3}
RlSteps == {20, 60}          \* the clock advances by one of these

InitLimiterAt(t) ==
    /\ rl_now = t
    /\ api_lock = 0
    /\ last_api_call_time = NoTime
    /\ rl_pc = [c \in Callers |-> "idle"]
    /\ rl_wake = [c \in Callers |-> 0]
    /\ grants = <<>>

\* "with _api_lock:" lets a caller in only when no other caller holds it
\* (the first variant lets every caller in)
LockFree_unguarded == TRUE
LockFree == api_lock = 0

\* wait_time of _wait_for_api_limit as read at time t
WaitTime(t) ==
    IF last_api_call_time # NoTime /\ t - last_api_call_time < MIN_API_INTERVAL
    THEN MIN_API_INTERVAL - (t - last_api_call_time)
    ELSE 0

\* a caller enters the critical section, reads the clock and the last call
\* time, and goes to sleep if the interval has not elapsed
RlEnter(c) ==
    /\ rl_pc[c] = "idle" /\ LockFree
    /\ Len(grants) + Cardinality({d \in Callers : rl_pc[d] # "idle"}) < MaxGrants
    /\ api_lock' = c
    /\ rl_pc' = [rl_pc EXCEPT ![c] = IF WaitTime(rl_now) > 0 THEN "sleep" ELSE "write"]
    /\ rl_wake' = [rl_wake EXCEPT ![c] = rl_now + WaitTime(rl_now)]
    /\ UNCHANGED <<rl_now, last_api_call_time, grants>>
    /\ UNCHANGED <<ordVars, gwVars, raceVars>>

\* time.sleep(wait_time) returns, no earlier than asked
RlWake(c) ==
    /\ rl_pc[c] = "sleep" /\ rl_now >= rl_wake[c]
    /\ rl_pc' = [rl_pc EXCEPT ![c] = "write"]
    /\ UNCHANGED <<rl_now, api_lock, last_api_call_time, rl_wake, grants>>
    /\ UNCHANGED <<ordVars, gwVars, raceVars>>

\* the caller records the new call time and leaves the critical section
RlGrant(c) ==
    /\ rl_pc[c] = "write"
    /\ last_api_call_time' = rl_now
    /\ grants' = Append(grants, rl_now)
    /\ api_lock' = IF api_lock = c THEN 0 ELSE api_lock
    /\ rl_pc' = [rl_pc EXCEPT ![c] = "idle"]
    /\ UNCHANGED <<rl_now, rl_wake>>
    /\ UNCHANGED <<ordVars, gwVars, raceVars>>

RlTick(d) ==
    /\ rl_now + d <= MaxRlTime
    /\ rl_now' = rl_now + d
    /\ UNCHANGED <<api_lock, last_api_call_time, rl_pc, rl_wake, grants>>
    /\ UNCHANGED <<ordVars, gwVars, raceVars>>

NextLimiter ==
    \/ \E c \in Callers : RlEnter(c)
    \/ \E c \in Callers : RlWake(c)
    \/ \E c \in Callers : RlGrant(c)
    \/ \E d \in RlSteps : RlTick(d)

\* ------------------------------------------------- token manager (kis_auth)
\* The module globals of kis_auth and the token file, as one record:
\*   file_token, file_expiry   the token file (file_token 0: no file)
\*   file_readable             the file's text is what save_token wrote
\*   TRENV                     _TRENV.my_token (0: _TRENV is None)
\*   authorization             _base_headers["authorization"] (0: not set)
\*   last_auth_time            _last_auth_time
\*   issued                    tokens issued so far by the endpoint
\* Tokens are numbered in the order the endpoint issues them.
KeyConfigs == {"ok", "missing", "template"}
AuthResponses == {"200", "401", "raise"}
AuthRespFuns == [1..RecursionLimit -> AuthResponses]
NoTokenRequest == [d \in 1..RecursionLimit |-> "200"]   \* for requests not sent

\* read_token(): the saved token while its expiry is later than now; a file
\* that is missing or that yaml.load or strftime cannot digest raises inside
\* the try and reads as None
\* (the first variant also returns a token whose expiry is now)
read_token_notStrict(A, t) ==
    IF A.file_token # 0 /\ A.file_readable /\ A.file_expiry >= t
    THEN A.file_token ELSE 0

read_token(A, t) ==
    IF A.file_token # 0 /\ A.file_readable /\ A.file_expiry > t
    THEN A.file_token ELSE 0

\* save_token(my_token, my_expired): the file is written anew
save_token(A, token, expiry) ==
    [A EXCEPT !.file_token = token, !.file_expiry = expiry,
              !.file_readable = TRUE]

\* the tail of auth(): changeTREnv, header update, _last_auth_time
SetAuthenticated(A, token, t) ==
    [A EXCEPT !.TRENV = token, !.authorization = token, !.last_auth_time = t]

\* reAuth(): the proactive-refresh test
RefreshDue(A, t) == t - A.last_auth_time >= PROACTIVE_REFRESH

\* auth(), with reAuth() inlined where auth() builds its request headers.
\* keys: the configured API keys; aresp[d]: the endpoint's answer to the
\* token request sent by the invocation nested d deep.  An invocation nested
\* deeper than RecursionLimit raises RecursionError, which the enclosing
\* invocation catches around its request.
RECURSIVE auth(_, _, _, _, _)
auth(A, keys, t, aresp, depth) ==
    IF depth > RecursionLimit
    THEN [st |-> A, ok |-> FALSE, raised |-> TRUE, sent |-> 0]
    ELSE IF keys # "ok" THEN [st |-> A, ok |-> FALSE, raised |-> FALSE, sent |-> 0]
    ELSE LET saved_token == read_token(A, t)
         IN  IF saved_token # 0
             THEN [st |-> SetAuthenticated(A, saved_token, t),
                   ok |-> TRUE, raised |-> FALSE, sent |-> 0]
             ELSE LET hdr == IF RefreshDue(A, t)
                             THEN auth(A, keys, t, aresp, depth + 1)
                             ELSE [st |-> A, ok |-> TRUE, raised |-> FALSE, sent |-> 0]
                      A1 == hdr.st
                      my_token == A1.issued + 1
                      A2 == save_token([A1 EXCEPT !.issued = my_token],
                                       my_token, t + TOKEN_VALIDITY)
                  IN  IF hdr.raised
                      THEN [st |-> A1, ok |-> FALSE, raised |-> FALSE,
                            sent |-> hdr.sent]
                      ELSE IF aresp[depth] = "200"
                      THEN [st |-> SetAuthenticated(A2, my_token, t),
                            ok |-> TRUE, raised |-> FALSE, sent |-> hdr.sent + 1]
                      ELSE [st |-> A1, ok |-> FALSE, raised |-> FALSE,
                            sent |-> hdr.sent + 1]

\* _getBaseHeader(): reAuth() before the headers are copied
GetBaseHeader(A, keys, t, aresp) ==
    IF RefreshDue(A, t)
    THEN LET r == auth(A, keys, t, aresp, 1)
         IN  [st |-> r.st, ran |-> TRUE, ok |-> r.ok, sent |-> r.sent]
    ELSE [st |-> A, ran |-> FALSE, ok |-> FALSE, sent |-> 0]

\* _auto_reauth()
AutoReauth(A, keys, t, aresp) ==
    IF A.TRENV = 0 THEN [st |-> A, ok |-> FALSE, sent |-> 0]
    ELSE LET r == auth(A, keys, t, aresp, 1)
         IN  [st |-> r.st, ok |-> r.ok, sent |-> r.sent]

\* the most token requests one auth() can send: one, or one by each nested
\* invocation but the deepest when the proactive refresh is due
MostRequests(A, t) == IF RefreshDue(A, t) THEN RecursionLimit - 1 ELSE 1

\* the endpoint's answers beyond the first n requests are not asked for
Unasked(aresp, n) ==
    \A d \in 1..RecursionLimit : d > n => aresp[d] = NoTokenRequest[d]

NoFile == [file_token |-> 0, file_expiry |-> 0, file_readable |-> TRUE,
           TRENV |-> 0, authorization |-> 0, last_auth_time |-> 0, issued |-> 0]

\* at process start the token file is absent, expired, or left by an earlier
\* run with some validity remaining
InitExpiries == {7200, TOKEN_VALIDITY}
InitKis == {NoFile} \cup
           {[NoFile EXCEPT !.file_token = 1, !.file_expiry = e, !.issued = 1] :
                e \in InitExpiries}

\* ------------------------------------------------- gateway (_url_fetch)
\* What the transport does with one request: the HTTP status and the
\* application code of the answer, or an exception
Responses == {"200_ok", "200_rate", "200_token", "200_other",
              "500_token", "500_rate", "500_other", "http_other", "exception"}
RateResponses == {"200_rate", "500_rate"}

\* one logical call that has not started; only_rate: every answer so far
\* was the rate-limit error
IdleCall == [pc |-> "idle", attempt |-> 0, hash |-> FALSE, requests |-> 0,
             replays |-> 0, reauths |-> 0, acquires |-> 0, hashes |-> 0,
             sleeps |-> <<>>, only_rate |-> TRUE, result |-> "-", from |-> "-"]

NoAttempt == [op |-> "none", resp |-> "-", replay |-> "-", attempt |-> 0,
              sleeps_before |-> 0, reauths_before |-> 0, requests_before |-> 0,
              token_requests |-> 0, issued_before |-> 0,
              file_valid_before |-> FALSE,
              proactive |-> FALSE, reauth |-> FALSE, auth_ok |-> FALSE,
              lost |-> FALSE]

FreshStats == [total_calls |-> 0, success_calls |-> 0, rate_limit_errors |-> 0,
               other_errors |-> 0, total_wait_time |-> 0]

\* _api_stats after two calls answered by the rate-limit error throughout
\* and a third that succeeded after two such answers
SeasonedStats == [total_calls |-> 11, success_calls |-> 1, rate_limit_errors |-> 10,
                  other_errors |-> 2, total_wait_time |-> 25500]

\* requests made since the start of the behaviour
AttemptsMade ==
    IF api_stats.total_calls >= SeasonedStats.total_calls
    THEN api_stats.total_calls - SeasonedStats.total_calls
    ELSE api_stats.total_calls

InitKisAuth(keys, K, stats) ==
    /\ clock = 0
    /\ app_keys = keys
    /\ kis = K
    /\ api_stats = stats
    /\ gw = IdleCall
    /\ gw_last = NoAttempt

\* "for attempt in range(_max_retries + 1)" (the first variant is
\* range(_max_retries))
InRange_oneLess(attempt) == attempt < MAX_RETRIES
InRange(attempt) == attempt <= MAX_RETRIES

\* the backoff after a rate-limit answer, in milliseconds
RateLimitWait(stats, attempt) ==
    LET base_delay == IF stats.rate_limit_errors > RATE_ERRORS_ESCALATE
                      THEN (RETRY_DELAY_BASE * 3) \div 2 ELSE RETRY_DELAY_BASE
    IN  base_delay * (2 ^ attempt)

\* the backoff after a transport exception (the first variant does not grow)
ExceptionWait_flat(attempt) == RETRY_DELAY_BASE
ExceptionWait(attempt) == RETRY_DELAY_BASE * (2 ^ attempt)

\* the call returns
Return(g, result, from) ==
    [g EXCEPT !.pc = "done", !.result = result, !.from = from]

\* "continue": the next iteration, or the end of the loop and "return None"
Continue(g) ==
    IF InRange(g.attempt + 1) THEN [g EXCEPT !.attempt = @ + 1]
    ELSE Return(g, "none", "-")

Sleep(g, stats, wait_time) ==
    [g |-> [g EXCEPT !.sleeps = Append(@, wait_time)],
     stats |-> [stats EXCEPT !.total_wait_time = @ + wait_time]]

\* how an answer with an application-level error code is classified (the
\* first variant takes every other business error for a rate-limit error)
IsRateLimit_orOther(resp) == resp \in RateResponses \cup {"200_other"}
IsRateLimit(resp) == resp \in RateResponses

\* the rate-limit branch (lines 365-384 and 449-469)
OnRateLimit(g, stats, resp) ==
    LET stats1 == [stats EXCEPT !.rate_limit_errors = @ + 1]
    IN  IF g.attempt < MAX_RETRIES
        THEN LET s == Sleep(g, stats1, RateLimitWait(stats1, g.attempt))
             IN  [g |-> Continue(s.g), stats |-> s.stats]
        ELSE [g |-> Return(g, IF resp = "200_rate" THEN "resp" ELSE "none",
                           IF resp = "200_rate" THEN "main" ELSE "-"),
              stats |-> [stats1 EXCEPT !.other_errors = @ + 1]]

\* "except Exception" of the loop body (lines 480-488)
OnException(g, stats) ==
    IF g.attempt < MAX_RETRIES
    THEN LET s == Sleep(g, stats, ExceptionWait(g.attempt))
         IN  [g |-> Continue(s.g), stats |-> s.stats]
    ELSE [g |-> Return(g, "none", "-"), stats |-> stats]

\* what the call returns after the replay that follows a re-authentication
\* (lines 409-425)
ReplayReturn(g, replay) ==
    IF replay = "200_ok" THEN Return(g, "ok", "replay")
    ELSE IF replay \in {"200_rate", "200_token", "200_other"}
    THEN Return(g, "resp", "replay")
    ELSE IF replay = "exception" THEN Return(g, "resp", "main")
    ELSE Return(g, "none", "-")

\* _url_fetch is called
GwStart(hash) ==
    /\ gw.pc = "idle" /\ AttemptsMade < MaxAttempts
    /\ gw' = IF kis.TRENV = 0
             THEN Return([IdleCall EXCEPT !.hash = hash], "none", "-")
             ELSE [IdleCall EXCEPT !.pc = "loop", !.hash = hash]
    /\ gw_last' = [NoAttempt EXCEPT !.op = "start"]
    /\ UNCHANGED <<clock, app_keys, kis, api_stats>>
    /\ UNCHANGED <<ordVars, rlVars, raceVars>>

\* one iteration of the retry loop: the rate limiter, the headers (with the
\* proactive refresh), the request answered by resp, and the handling of the
\* answer; aresp answers the token requests, and the replayed request, if
\* there is one, gets any of the answers; a POST that raised may have
\* raised after the broker had taken the request (lost: its answer never
\* arrived) or before
GwAttempt(resp, aresp) ==
    /\ gw.pc = "loop" /\ AttemptsMade < MaxAttempts
    /\ Unasked(aresp, IF RefreshDue(kis, clock)
                         \/ resp \in {"200_token", "500_token"}
                      THEN MostRequests(kis, clock) ELSE 0)
    /\ LET hd == GetBaseHeader(kis, app_keys, clock, aresp)
           stats1 == [api_stats EXCEPT !.total_calls = @ + 1]
           g1 == [gw EXCEPT !.acquires = @ + 1, !.requests = @ + 1,
                            !.hashes = IF gw.hash THEN @ + 1 ELSE @,
                            !.only_rate = @ /\ IsRateLimit(resp)]
           token == resp \in {"200_token", "500_token"}
           ra == IF token THEN AutoReauth(hd.st, app_keys, clock, aresp)
                 ELSE [st |-> hd.st, ok |-> FALSE, sent |-> 0]
           g2 == [g1 EXCEPT !.reauths = @ + 1]
           g3 == [g2 EXCEPT !.requests = @ + 1, !.replays = @ + 1,
                            !.hashes = IF gw.hash THEN @ + 1 ELSE @]
           rl == OnRateLimit(g1, stats1, resp)
           ex == OnException(g1, stats1)
           sent == hd.sent + ra.sent
           replayed == resp = "200_token" /\ ra.ok
       IN  /\ Unasked(aresp, Max(hd.sent, ra.sent))
           /\ kis' = ra.st
           /\ api_stats' = CASE resp = "200_ok" ->
                                  [stats1 EXCEPT !.success_calls = @ + 1]
                             [] IsRateLimit(resp) -> rl.stats
                             [] resp = "exception" -> ex.stats
                             [] OTHER -> stats1
           /\ \E replay \in IF replayed THEN Responses ELSE {"-"},
                 lost \in IF resp = "exception" /\ gw.hash THEN BOOLEAN ELSE {FALSE} :
                /\ gw' = CASE resp = "200_ok" -> Return(g1, "ok", "main")
                           [] IsRateLimit(resp) -> rl.g
                           [] resp = "200_token" ->
                                 IF replayed THEN ReplayReturn(g3, replay)
                                 ELSE Return(g2, "resp", "main")
                           [] resp = "200_other" -> Return(g1, "resp", "main")
                           [] resp = "500_token" ->
                                 IF ra.ok THEN Continue(g2)
                                 ELSE Return(g2, "none", "-")
                           [] resp \in {"500_other", "http_other"} ->
                                 Return(g1, "none", "-")
                           [] resp = "exception" -> ex.g
                /\ gw_last' = [op |-> "attempt", resp |-> resp, replay |-> replay,
                               attempt |-> gw.attempt,
                               sleeps_before |-> Len(gw.sleeps),
                               reauths_before |-> gw.reauths,
                               requests_before |-> gw.requests,
                               token_requests |-> sent,
                               issued_before |-> kis.issued,
                               file_valid_before |-> read_token(kis, clock) # 0,
                               proactive |-> hd.ran, reauth |-> token,
                               auth_ok |-> IF token THEN ra.ok ELSE hd.ok,
                               lost |-> lost]
    /\ UNCHANGED <<clock, app_keys>>
    /\ UNCHANGED <<ordVars, rlVars, raceVars>>

\* the caller has the result of the call
GwReturn ==
    /\ gw.pc = "done"
    /\ gw' = IdleCall
    /\ gw_last' = [NoAttempt EXCEPT !.op = "return"]
    /\ UNCHANGED <<clock, app_keys, kis, api_stats>>
    /\ UNCHANGED <<ordVars, rlVars, raceVars>>

\* KISAPIManager._initialize_auth: kis_auth.auth() called by the owner
AuthCall(aresp) ==
    /\ gw.pc = "idle"
    /\ Unasked(aresp, MostRequests(kis, clock))
    /\ LET r == auth(kis, app_keys, clock, aresp, 1)
       IN  /\ Unasked(aresp, r.sent)
           /\ kis' = r.st
           /\ gw_last' = [NoAttempt EXCEPT !.op = "auth", !.auth_ok = r.ok,
                             !.token_requests = r.sent,
                             !.issued_before = kis.issued,
                             !.file_valid_before = read_token(kis, clock) # 0]
    /\ UNCHANGED <<clock, app_keys, api_stats, gw>>
    /\ UNCHANGED <<ordVars, rlVars, raceVars>>

\* time passes between calls: the clock moves on to a later one of these
\* instants (2 hours, 23 hours, 24 hours after the start)
ClockPoints == {0, 7200, PROACTIVE_REFRESH, TOKEN_VALIDITY}

GwTick(t) ==
    /\ gw.pc = "idle" /\ t > clock
    /\ clock' = t
    /\ gw_last' = [NoAttempt EXCEPT !.op = "tick"]
    /\ UNCHANGED <<app_keys, kis, api_stats, gw>>
    /\ UNCHANGED <<ordVars, rlVars, raceVars>>

NextGateway ==
    \/ \E hash \in BOOLEAN : GwStart(hash)
    \/ \E resp \in Responses, aresp \in AuthRespFuns : GwAttempt(resp, aresp)
    \/ GwReturn
    \/ \E aresp \in AuthRespFuns : AuthCall(aresp)
    \/ \E t \in ClockPoints : GwTick(t)

\* ------------------------------------------------------------------ Init
EmptyStore == [orders |-> [i \in OrderIds |-> NoOrder], pending |-> <<>>,
               completed |-> <<>>, timeouts |-> [i \in OrderIds |-> NoTime]]

SetStore(S) ==
    /\ orders' = S.orders
    /\ pending_orders' = S.pending
    /\ completed_orders' = S.completed
    /\ order_timeouts' = S.timeouts

InitStore(S, t, close, h, idset, pc) ==
    /\ now = t
    /\ timeout_seconds = [i \in DOMAIN S.orders |->
                            IF S.timeouts[i] = NoTime THEN 0
                            ELSE S.timeouts[i] - S.orders[i].timestamp]
    /\ market_close = close
    /\ horizon = h
    /\ ids = idset
    /\ orders = S.orders
    /\ pending_orders = S.pending
    /\ completed_orders = S.completed
    /\ order_timeouts = S.timeouts
    /\ mon_pc = pc
    /\ wake_at = t
    /\ cycle_time = t
    /\ to_sweep = <<>>
    /\ to_process = <<>>
    /\ last = PlainOp("init", 0)

\* no cancel_order(order_id) is in flight, no order was demoted yet
NoCall == [pc |-> "idle", id |-> 0]

NoCheck == [pc |-> "idle", idx |-> 1, id |-> 0, timeout_time |-> NoTime,
            done |-> <<>>, raised |-> {}]

InitCalls(c, idset) ==
    /\ cancel_call = c
    /\ check_call = NoCheck
    /\ demoted_at = [i \in idset |-> NoTime]

\* the order manager with no order and its monitoring loop not started
InitNoOrders(pc) == InitStore(EmptyStore, 0, MaxTime + 1, MaxTime, {1}, pc)

\* ------------------------------------------------------ order life cycle
\* place_buy_order / place_sell_order succeed: the broker hands out the
\* smallest unused order id
Submit(type, qty, secs) ==
    /\ mon_pc # "recon" /\ now <= MaxSubmitTime
    /\ \E id \in ids :
        /\ orders[id] = NoOrder
        /\ \A j \in ids : j < id => orders[j] # NoOrder
        /\ SetStore(PlaceOrder(Store, id, type, qty, secs, now, market_close))
        /\ timeout_seconds' = [timeout_seconds EXCEPT ![id] = secs]
        /\ last' = PlainOp("submit", id)
    /\ UNCHANGED <<now, market_close, horizon, ids, mon_pc, wake_at, cycle_time,
                   to_sweep, to_process>>
    /\ UNCHANGED <<rlVars, gwVars, raceVars>>

\* the position after the Sweeper / after an order of the cycle
NextPc(sweep, process) ==
    IF sweep # <<>> THEN "sweep" ELSE IF process # <<>> THEN "orders" ELSE "sleep"

\* start_monitoring wakes up while the market is closed: sleep(60)
MonitorClosed ==
    /\ mon_pc = "sleep" /\ now >= wake_at
    /\ ~IsMarketOpen(now, market_close)
    /\ wake_at' = now + CLOSED_SLEEP
    /\ last' = PlainOp("closed", 0)
    /\ UNCHANGED <<timeout_seconds, now, market_close, horizon, ids, orders, pending_orders,
                   completed_orders, order_timeouts, mon_pc, cycle_time,
                   to_sweep, to_process>>
    /\ UNCHANGED <<rlVars, gwVars, raceVars>>

\* start_monitoring wakes up, market open: _monitor_pending_orders begins
MonitorBegin ==
    /\ mon_pc = "sleep" /\ now >= wake_at
    /\ IsMarketOpen(now, market_close)
    /\ LET sweep == RecentCompleted(Store, now)
           process == pending_orders
       IN  /\ cycle_time' = now
           /\ to_sweep' = sweep
           /\ to_process' = process
           /\ mon_pc' = NextPc(sweep, process)
           /\ wake_at' = IF NextPc(sweep, process) = "sleep"
                         THEN now + MONITOR_SLEEP ELSE wake_at
    /\ last' = PlainOp("begin", 0)
    /\ UNCHANGED <<timeout_seconds, now, market_close, horizon, ids, orders, pending_orders,
                   completed_orders, order_timeouts>>
    /\ UNCHANGED <<rlVars, gwVars, raceVars>>

\* _check_false_positive_filled_orders re-verifies one recent completion
SweepStep(sd) ==
    /\ mon_pc = "sweep"
    /\ LET id == Head(to_sweep)
       IN  /\ SetStore(SweepOrder(Store, id, sd, cycle_time))
           /\ last' = Op("sweep", id, sd, "-", orders[id].status, "none", FALSE, 0, 0)
           /\ demoted_at' = IF IsFalsePositive(sd)
                             THEN [demoted_at EXCEPT ![id] = cycle_time]
                             ELSE demoted_at
    /\ to_sweep' = Tail(to_sweep)
    /\ mon_pc' = NextPc(Tail(to_sweep), to_process)
    /\ wake_at' = IF NextPc(Tail(to_sweep), to_process) = "sleep"
                  THEN now + MONITOR_SLEEP ELSE wake_at
    /\ UNCHANGED <<timeout_seconds, now, market_close, horizon, ids, cycle_time, to_process>>
    /\ UNCHANGED <<rlVars, gwVars, cancel_call, check_call>>

\* _monitor_pending_orders handles one order of orders_to_process
OrderStep(sd, outcome) ==
    /\ mon_pc = "orders"
    /\ LET id == Head(to_process)
           S1 == CheckOrderStatus(Store, id, sd, now)
           rule == IF InPending(Store, id)
                   THEN FiredRule(Store, S1, id, cycle_time, now) ELSE "none"
       IN  /\ rule = "none" => outcome = "ok"    \* no cancel is attempted
           /\ SetStore(ProcessOrder(Store, id, sd, outcome, cycle_time, now))
           /\ last' = OrderOp(id, sd, IF rule = "none" THEN "-" ELSE outcome,
                              orders[id].status, rule,
                              FilledCallback(Store, id, sd, now),
                              IF rule = "none" THEN 0
                              ELSE TimeoutCallbacks(S1, id, outcome))
    /\ to_process' = Tail(to_process)
    /\ mon_pc' = NextPc(<<>>, Tail(to_process))
    /\ wake_at' = IF Tail(to_process) = <<>> THEN now + MONITOR_SLEEP ELSE wake_at
    /\ UNCHANGED <<timeout_seconds, now, market_close, horizon, ids, cycle_time, to_sweep>>
    /\ UNCHANGED <<rlVars, gwVars, raceVars>>

\* the monitoring loop sleeps until wake_at
Tick ==
    /\ mon_pc = "sleep" /\ now < wake_at /\ wake_at <= horizon
    /\ now' = wake_at
    /\ last' = PlainOp("tick", 0)
    /\ demoted_at' = [i \in DOMAIN demoted_at |->
                        IF wake_at >= demoted_at[i] + RESTORE_FLOOR
                        THEN NoTime ELSE demoted_at[i]]
    /\ UNCHANGED <<timeout_seconds, market_close, horizon, ids, orders, pending_orders,
                   completed_orders, order_timeouts, mon_pc, wake_at, cycle_time,
                   to_sweep, to_process>>
    /\ UNCHANGED <<rlVars, gwVars, cancel_call, check_call>>

NextOrders ==
    \/ \E type \in OrderTypes, qty \in 1..LifeQty, ts \in TimeoutChoices :
          Submit(type, qty, ts)
    \/ MonitorClosed
    \/ MonitorBegin
    \/ \E sd \in StatusOutcomes : SweepStep(sd)
    \/ \E sd \in StatusOutcomes, outcome \in CancelOutcomes : OrderStep(sd, outcome)
    \/ Tick

\* one order at a time; the market closes early or not within the horizon
CloseChoices == {12, MaxTime + 1}

InitOrders ==
    \E close \in CloseChoices :
        /\ InitStore(EmptyStore, 0, close, MaxTime, {1}, "sleep")
        /\ InitLimiterAt(0)
        /\ InitKisAuth("ok", NoFile, FreshStats)
        /\ InitCalls(NoCall, OrderIds)

SpecOrders == InitOrders /\ [][NextOrders]_vars

\* ------------------------------------------------- reconciliation alone
\* One active order, submitted at time 0 and polled at time t; the broker's
\* two listings are drawn freely.
ReconTimes == {0, 3, 180, 300, 303, 360}

InitRecon ==
    \E type \in OrderTypes, qty \in 1..MaxQty, secs \in TimeoutChoices,
       t \in ReconTimes :
        /\ t <= secs + MONITOR_SLEEP
        /\ InitStore(PlaceOrder(EmptyStore, 1, type, qty, secs, 0, MaxTime + 1),
                     t, MaxTime + 1, MaxTime, {1}, "recon")
        /\ InitLimiterAt(0)
        /\ InitKisAuth("ok", NoFile, FreshStats)
        /\ InitCalls(NoCall, OrderIds)

\* _check_order_status(order_id): get_order_status on the two listings, then
\* the classification
Reconcile ==
    /\ mon_pc = "recon"
    /\ last.op = "init"
    /\ \E open \in OpenResps, daily \in DailyResps :
          LET sd == get_order_status(open, daily)
          IN  /\ SetStore(CheckOrderStatus(Store, 1, sd, now))
              /\ last' = ReconOp("check", sd, open.ok /\ open.rows # <<>>,
                              IF daily.ok THEN Len(daily.rows) ELSE 0,
                              IF daily.ok THEN RowsSum(daily.rows, Len(daily.rows)) ELSE 0,
                              now)
    /\ UNCHANGED <<timeout_seconds, now, market_close, horizon, ids, mon_pc, wake_at, cycle_time,
                   to_sweep, to_process>>
    /\ UNCHANGED <<rlVars, gwVars, raceVars>>

\* _check_order_status(order_id) is called once more, dt seconds later; the
\* broker's two listings are what they were, so that get_order_status
\* returns the status_data it returned before
RecheckDelays == {0, MONITOR_SLEEP}

ReconcileAgain(dt) ==
    /\ mon_pc = "recon"
    /\ last.op = "check"
    /\ SetStore(CheckOrderStatus(Store, 1, last.sd, now + dt))
    /\ last' = ReconOp("recheck", last.sd, last.in_open, last.rows, last.fill_sum,
                       now + dt)
    /\ now' = now + dt
    /\ UNCHANGED <<timeout_seconds, market_close, horizon, ids, mon_pc, wake_at, cycle_time,
                   to_sweep, to_process>>
    /\ UNCHANGED <<rlVars, gwVars, raceVars>>

NextRecon ==
    \/ Reconcile
    \/ \E dt \in RecheckDelays : ReconcileAgain(dt)

SpecRecon == InitRecon /\ [][NextRecon]_vars

\* the rate limiter alone, under concurrent callers
InitLimiter ==
    /\ InitNoOrders("off")
    /\ InitLimiterAt(0)
    /\ InitKisAuth("ok", NoFile, FreshStats)
    /\ InitCalls(NoCall, OrderIds)

SpecLimiter == InitLimiter /\ [][NextLimiter]_vars

\* the gateway and the token manager, one logical call at a time
InitGateway ==
    \E keys \in KeyConfigs, K \in InitKis, stats \in {FreshStats, SeasonedStats} :
        /\ InitNoOrders("off")
        /\ InitLimiterAt(0)
        /\ InitKisAuth(keys, K, stats)
        /\ InitCalls(NoCall, OrderIds)

SpecGateway == InitGateway /\ [][NextGateway]_vars


\* ------------------------------------------- placing and cancelling orders
\* place_buy_order, place_sell_order and cancel_order as their callers use
\* them.  Notifications (self.telegram) return normally.
PlaceQtys == (-1)..LifeQty
PlacePrices == {-1, 1000}
TimeoutArgs == {0, 750}        \* 0: timeout_seconds is None (or 0)
PlaceResults == {"accepted", "rejected", "raises"}

\* "timeout_seconds or self.config.order_management.<side>_timeout_seconds"
EffectiveTimeout(type, arg) ==
    IF arg # 0 THEN arg
    ELSE IF type = "BUY" THEN buy_timeout_seconds ELSE sell_timeout_seconds

\* kis_order_api.get_order_cash behind KISAPIManager.place_buy_order /
\* place_sell_order: an order with quantity <= 0, or with a negative price
\* unless it is a market order, is refused before any request is sent;
\* otherwise the broker decides
OrderCash(quantity, price, market, result) ==
    IF quantity <= 0 \/ (price < 0 /\ ~market)
    THEN [result |-> "rejected", sent |-> FALSE]
    ELSE [result |-> result, sent |-> TRUE]

\* the paper-trading branch: an Order created FILLED, appended to
\* completed_orders under a made-up id
PaperOrder(S, id, type, qty, t, close) ==
    [S EXCEPT !.orders[id] =
                  [Order(type, qty, t,
                         IF type = "BUY" THEN CurrentCandleTime(t, close) ELSE NoTime)
                   EXCEPT !.status = "FILLED", !.remaining_quantity = 0],
              !.completed = Append(@, id)]

\* the smallest order id not yet used (0: none left)
FreshId ==
    IF \E i \in ids : orders[i] = NoOrder
    THEN CHOOSE i \in ids : orders[i] = NoOrder /\ \A j \in ids : j < i => orders[j] # NoOrder
    ELSE 0

DeskOp(op, id, type, quantity, price, market, paper, arg, result, sent, returned) ==
    [op |-> op, id |-> id, type |-> type, quantity |-> quantity, price |-> price,
     market |-> market, paper |-> paper, arg |-> arg, result |-> result,
     sent |-> sent, returned |-> returned, prev |-> Store, at |-> now]

\* the body shared by place_buy_order and place_sell_order: the store
\* afterwards, the id returned (0: None), what the API manager answered and
\* whether an order request went out
Place(S, id, type, quantity, price, arg, market, paper, result, t, close) ==
    LET secs == EffectiveTimeout(type, arg)
        api == OrderCash(quantity, price, market, result)
    IN  IF paper
        THEN [store |-> PaperOrder(S, id, type, quantity, t, close), returned |-> id,
              result |-> "-", sent |-> FALSE, secs |-> 0]
        ELSE IF api.result = "accepted"
        THEN [store |-> PlaceOrder(S, id, type, quantity, secs, t, close),
              returned |-> id, result |-> api.result, sent |-> api.sent, secs |-> secs]
        ELSE [store |-> S, returned |-> 0, result |-> api.result, sent |-> api.sent,
              secs |-> 0]

\* OrderManager.place_buy_order(stock_code, quantity, price, timeout_seconds)
PlaceBuyOrder(quantity, price, arg, paper, result) ==
    /\ mon_pc = "desk" /\ FreshId # 0
    /\ LET r == Place(Store, FreshId, "BUY", quantity, price, arg, FALSE, paper,
                      result, now, market_close)
       IN  /\ SetStore(r.store)
           /\ timeout_seconds' = [timeout_seconds EXCEPT ![FreshId] = r.secs]
           /\ last' = DeskOp("place_buy", r.returned, "BUY", quantity, price, FALSE,
                             paper, arg, r.result, r.sent, r.returned)
    /\ UNCHANGED <<now, market_close, horizon, ids, mon_pc, wake_at, cycle_time,
                   to_sweep, to_process>>
    /\ UNCHANGED <<rlVars, gwVars, raceVars>>

\* OrderManager.place_sell_order(stock_code, quantity, price, timeout_seconds,
\* market)
PlaceSellOrder(quantity, price, arg, market, paper, result) ==
    /\ mon_pc = "desk" /\ FreshId # 0
    /\ LET r == Place(Store, FreshId, "SELL", quantity, price, arg, market, paper,
                      result, now, market_close)
       IN  /\ SetStore(r.store)
           /\ timeout_seconds' = [timeout_seconds EXCEPT ![FreshId] = r.secs]
           /\ last' = DeskOp("place_sell", r.returned, "SELL", quantity, price, market,
                             paper, arg, r.result, r.sent, r.returned)
    /\ UNCHANGED <<now, market_close, horizon, ids, mon_pc, wake_at, cycle_time,
                   to_sweep, to_process>>
    /\ UNCHANGED <<rlVars, gwVars, raceVars>>

\* OrderManager.cancel_order(order_id), called from outside the monitoring
\* loop
CancelOrderCall(id, outcome) ==
    /\ mon_pc = "desk"
    /\ LET c == CancelOrder(Store, id, outcome)
       IN  /\ ~c.called => outcome = "ok"     \* no broker call: nothing to draw
           /\ SetStore(c.store)
           /\ last' = DeskOp("cancel", id, orders[id].order_type, orders[id].quantity,
                             0, FALSE, FALSE, 0,
                             IF c.called THEN outcome ELSE "-", c.called,
                             IF c.success THEN id ELSE 0)
    /\ UNCHANGED <<timeout_seconds, now, market_close, horizon, ids, mon_pc, wake_at,
                   cycle_time, to_sweep, to_process>>
    /\ UNCHANGED <<rlVars, gwVars, raceVars>>

\* time passes between two calls
DeskSteps == {100}

DeskTick(d) ==
    /\ mon_pc = "desk" /\ now + d <= horizon
    /\ now' = now + d
    /\ last' = PlainOp("tick", 0)
    /\ UNCHANGED <<timeout_seconds, market_close, horizon, ids, orders, pending_orders,
                   completed_orders, order_timeouts, mon_pc, wake_at, cycle_time,
                   to_sweep, to_process>>
    /\ UNCHANGED <<rlVars, gwVars, raceVars>>

NextDesk ==
    \/ \E quantity \in PlaceQtys, price \in PlacePrices, arg \in TimeoutArgs,
          paper \in BOOLEAN, result \in PlaceResults :
          PlaceBuyOrder(quantity, price, arg, paper, result)
    \/ \E quantity \in PlaceQtys, price \in PlacePrices, arg \in TimeoutArgs,
          market \in BOOLEAN, paper \in BOOLEAN, result \in PlaceResults :
          PlaceSellOrder(quantity, price, arg, market, paper, result)
    \/ \E id \in OrderIds, outcome \in CancelOutcomes : CancelOrderCall(id, outcome)
    \/ \E d \in DeskSteps : DeskTick(d)

InitDesk ==
    /\ InitStore(EmptyStore, 0, MaxTime + 1, MaxDeskTime, OrderIds, "desk")
    /\ InitLimiterAt(0)
    /\ InitKisAuth("ok", NoFile, FreshStats)
    /\ InitCalls(NoCall, OrderIds)

SpecDesk == InitDesk /\ [][NextDesk]_vars

\* ------------------------------------------ broker gateway (KISAPIManager)
\* OrderResult; detail is the text interpolated into the message, if any
OrderResult(success, order_id, message, detail, error_code) ==
    [success |-> success, order_id |-> order_id, message |-> message,
     detail |-> detail, error_code |-> error_code]

\* the candidate names of the routing field, in the order they are tried
possible_orgno_fields ==
    <<"krx_fwdg_ord_orgno", "ord_orgno", "ord_gno_brno", "orgn_odno">>

\* what a candidate field of the order's row may hold
FieldValues == {"absent", "", "06010", "00950"}
ListingRows == [SeqToSet(possible_orgno_fields) -> FieldValues]

\* the loop over possible_orgno_fields, from candidate i on
\* (the first variant has no break: the last usable candidate wins)
RECURSIVE FindOrgno_noBreak(_, _)
RECURSIVE FindOrgno(_, _)
FindOrgno_noBreak(order_data, i) ==
    IF i > Len(possible_orgno_fields) THEN ""
    ELSE LET field == possible_orgno_fields[i]
             rest == FindOrgno_noBreak(order_data, i + 1)
         IN  IF rest # "" THEN rest
             ELSE IF order_data[field] # "absent" /\ order_data[field] # ""
                  THEN order_data[field] ELSE ""

FindOrgno(order_data, i) ==
    IF i > Len(possible_orgno_fields) THEN ""
    ELSE LET field == possible_orgno_fields[i]
         IN  IF order_data[field] # "absent" /\ order_data[field] # ""
             THEN order_data[field]
             ELSE FindOrgno(order_data, i + 1)

\* what _call_api_with_retry hands back for get_inquire_psbl_rvsecncl_lst:
\* None, an exception, an empty listing, a listing without the order, or a
\* listing with the order's row
ListingOutcomes == {"none", "raises", "empty", "other", "target"}

\* what it hands back for get_order_rvsecncl / get_order_cash: None, an
\* exception, an empty frame, or one row with rt_cd, msg1 and (for an
\* accepted order) ODNO
DeclineTexts == {"insufficient balance", "order already executed"}
BrokerRow == {[rt_cd |-> "0", msg1 |-> "ok", ODNO |-> "0000012345"]}
             \cup {[rt_cd |-> "1", msg1 |-> m, ODNO |-> ""] : m \in DeclineTexts}
BrokerAnswers == {[kind |-> "none"], [kind |-> "raises"], [kind |-> "empty"]}
                 \cup {[kind |-> "row", row |-> r] : r \in BrokerRow}

\* the message of the extra get_order_status look-up made when the order is
\* not in the listing
NotListedMessage(sd, fallback) ==
    IF ~sd.none /\ sd.tot_ccld_qty > 0 /\ sd.tot_ccld_qty = sd.ord_qty
    THEN "already filled"
    ELSE IF ~sd.none /\ sd.cncl_yn = "Y" THEN "already cancelled"
    ELSE fallback

\* KISAPIManager.cancel_order(order_id, ...): the result, whether
\* get_order_rvsecncl was invoked, and the ord_orgno it was given
KisCancelOrder(order_id, before_open, listing, order_data, sd, answer) ==
    LET fail(m) == [result |-> OrderResult(FALSE, "", m, "", ""),
                    invoked |-> FALSE, ord_orgno |-> ""]
        ord_orgno == FindOrgno(order_data, 1)
    IN  IF before_open THEN fail("before market open")
        ELSE IF listing = "raises"
          THEN [result |-> OrderResult(FALSE, "", "cancel error", "exception", ""),
                invoked |-> FALSE, ord_orgno |-> ""]
        ELSE IF listing = "none" THEN fail("listing call failed")
        ELSE IF listing = "empty"
          THEN fail(NotListedMessage(sd, "nothing to cancel"))
        ELSE IF listing = "other"
          THEN fail(NotListedMessage(sd, "target not found"))
        ELSE IF ord_orgno = "" THEN fail("no routing field")
        ELSE LET r == IF answer.kind = "raises"
                        THEN OrderResult(FALSE, "", "cancel error", "exception", "")
                      ELSE IF answer.kind = "none"
                        THEN OrderResult(FALSE, "", "cancel call failed", "", "")
                      ELSE IF answer.kind = "empty"
                        THEN OrderResult(FALSE, "", "no cancel response", "", "")
                      ELSE IF answer.row.rt_cd = "0"
                        THEN OrderResult(TRUE, order_id, "cancelled", "", "")
                      ELSE OrderResult(FALSE, "", "cancel failed",
                                       answer.row.msg1, answer.row.rt_cd)
             IN  [result |-> r, invoked |-> TRUE, ord_orgno |-> ord_orgno]

\* KISAPIManager.place_buy_order / place_sell_order on what
\* _call_api_with_retry(get_order_cash, ...) handed back
KisPlaceOrder(answer) ==
    IF answer.kind = "raises"
      THEN OrderResult(FALSE, "", "order error", "exception", "")
    ELSE IF answer.kind \in {"none", "empty"}
      THEN OrderResult(FALSE, "", "no response", "", "")
    ELSE IF answer.row.ODNO # ""
      THEN OrderResult(TRUE, answer.row.ODNO, "order placed", "", "")
    ELSE OrderResult(FALSE, "", "no order number", "", "")

\* the record of a gateway call: its inputs, its OrderResult, and what it
\* did at the broker
BrokerOp(op, listing, order_data, answer, result, invoked, ord_orgno) ==
    [op |-> op, id |-> 0, listing |-> listing, order_data |-> order_data,
     answer |-> answer, result |-> result, invoked |-> invoked,
     ord_orgno |-> ord_orgno]

NoRow == [f \in SeqToSet(possible_orgno_fields) |-> "absent"]

ApiCancelOrder ==
    /\ mon_pc = "broker"
    /\ \E before_open \in BOOLEAN, listing \in ListingOutcomes,
          order_data \in ListingRows, sd \in StatusOutcomes,
          answer \in BrokerAnswers :
          LET c == KisCancelOrder("0000012345", before_open, listing,
                                  order_data, sd, answer)
              reached == ~before_open /\ listing = "target"
          IN  \* inputs the call never reads are fixed
              /\ listing # "target" => order_data = NoRow
              /\ listing \notin {"empty", "other"} \/ before_open => sd = NoneData
              /\ ~c.invoked => answer = [kind |-> "none"]
              /\ last' = BrokerOp(IF before_open THEN "api_cancel_early"
                                  ELSE "api_cancel",
                                  listing, order_data, answer, c.result,
                                  c.invoked, c.ord_orgno)
    /\ UNCHANGED <<now, market_close, horizon, ids, orders, pending_orders,
                   completed_orders, order_timeouts, mon_pc, wake_at,
                   cycle_time, to_sweep, to_process, timeout_seconds>>
    /\ UNCHANGED <<rlVars, gwVars, raceVars>>

ApiPlaceOrder(type) ==
    /\ mon_pc = "broker"
    /\ \E answer \in BrokerAnswers :
          last' = BrokerOp(IF type = "BUY" THEN "api_buy" ELSE "api_sell",
                           "-", NoRow, answer, KisPlaceOrder(answer), TRUE, "")
    /\ UNCHANGED <<now, market_close, horizon, ids, orders, pending_orders,
                   completed_orders, order_timeouts, mon_pc, wake_at,
                   cycle_time, to_sweep, to_process, timeout_seconds>>
    /\ UNCHANGED <<rlVars, gwVars, raceVars>>

NextBroker ==
    \/ ApiCancelOrder
    \/ \E type \in OrderTypes : ApiPlaceOrder(type)

InitBroker ==
    /\ InitStore(EmptyStore, 0, MaxTime + 1, MaxTime, {1}, "broker")
    /\ InitLimiterAt(0)
    /\ InitKisAuth("ok", NoFile, FreshStats)
    /\ InitCalls(NoCall, OrderIds)

SpecBroker == InitBroker /\ [][NextBroker]_vars


\* ------------------------------------ the event loop: monitor and cancel
\* The monitoring loop and a cancel_order(order_id) called by another task
\* run on one asyncio event loop: each runs until its next await, and the
\* other may run while it waits for the broker.

\* _check_order_status after its await: it holds the Order it took from
\* pending_orders before the await and does not look the id up again
CheckResume(S, id, sd, t) ==
    LET d == CheckDecision(S.orders[id], sd, t)
        S1 == [S EXCEPT !.orders[id] = d.order]
    IN  IF d.moved THEN MoveToCompleted(S1, id) ELSE S1

\* cancel_order after its await, likewise
CancelResume(S, id, outcome) ==
    IF outcome = "ok"
    THEN MoveToCompleted(SetStatus(S, id, "CANCELLED"), id)
    ELSE S

\* the timeout rule evaluated after the check, timeout_time having been
\* read before it
RuleAfterCheck(S1, id, timeout_time, current_time, t) ==
    IF ~InPending(S1, id) THEN "none"
    ELSE IF WallClockDue(timeout_time, current_time) THEN "wall"
    ELSE IF CandleDue(S1.orders[id], t) THEN "candle"
    ELSE "none"

\* the for loop of _monitor_pending_orders moves on: every iteration is
\* wrapped in its own try / except, so the next one is idx + 1 whether or
\* not this one raised (n: length of orders_to_process)
\* (the first variant leaves the loop when an iteration raises)
LoopNext_abort(idx, n, raised) == IF raised THEN n + 1 ELSE idx + 1

LoopNext(idx, n, raised) == idx + 1

\* check_call once the iteration at check_call.idx has ended; done and
\* raised are the history of the cycle: the ids whose iteration has ended,
\* and those whose iteration raised
IterationEnded(idx, id, raised) ==
    LET done0 == IF check_call.idx = 1 THEN <<>> ELSE check_call.done
        raised0 == IF check_call.idx = 1 THEN {} ELSE check_call.raised
    IN  [pc |-> "idle",
         idx |-> IF idx > Len(to_process) THEN 1 ELSE idx,
         id |-> 0, timeout_time |-> NoTime,
         done |-> Append(done0, id),
         raised |-> IF raised THEN raised0 \cup {id} ELSE raised0]

\* the loop iteration of _monitor_pending_orders up to the await inside
\* _check_order_status; to_process holds orders_to_process for the whole
\* cycle and check_call.idx is the loop's position in it
CheckBegin ==
    /\ mon_pc = "orders"
    /\ LET id == to_process[check_call.idx]
           next == LoopNext(check_call.idx, Len(to_process), TRUE)
       IN  IF InPending(Store, id)
           THEN /\ check_call' = [check_call EXCEPT
                                    !.pc = "await", !.id = id,
                                    !.timeout_time = order_timeouts[id],
                                    !.done = IF check_call.idx = 1 THEN <<>> ELSE @,
                                    !.raised = IF check_call.idx = 1 THEN {} ELSE @]
                /\ mon_pc' = "check"
                /\ last' = PlainOp("check_begin", id)
                /\ UNCHANGED wake_at
           ELSE \* KeyError, caught: on to the next order
                /\ check_call' = IterationEnded(next, id, TRUE)
                /\ mon_pc' = IF next > Len(to_process) THEN "sleep" ELSE "orders"
                /\ wake_at' = IF next > Len(to_process)
                              THEN now + MONITOR_SLEEP ELSE wake_at
                /\ last' = PlainOp("vanished", id)
    /\ UNCHANGED <<timeout_seconds, now, market_close, horizon, ids, orders,
                   pending_orders, completed_orders, order_timeouts, cycle_time,
                   to_sweep, to_process>>
    /\ UNCHANGED <<rlVars, gwVars, cancel_call, demoted_at>>

\* get_order_status returned sd: the rest of the loop iteration
CheckEnd(sd, outcome) ==
    /\ mon_pc = "check"
    /\ LET id == check_call.id
           S1 == CheckResume(Store, id, sd, now)
           rule == RuleAfterCheck(S1, id, check_call.timeout_time, cycle_time, now)
           raised == rule # "none" /\ outcome = "raises"
           next == LoopNext(check_call.idx, Len(to_process), raised)
       IN  /\ rule = "none" => outcome = "ok"    \* no cancel is attempted
           /\ SetStore(IF rule = "wall" THEN HandleTimeout(S1, id, outcome)
                       ELSE IF rule = "candle"
                            THEN Handle4CandleTimeout(S1, id, outcome)
                       ELSE S1)
           /\ last' = [Op("order", id, sd, IF rule = "none" THEN "-" ELSE outcome,
                          orders[id].status, rule, FALSE, 0, 0)
                       EXCEPT !.op = "check_end"]
           /\ check_call' = IterationEnded(next, id, raised)
           /\ mon_pc' = IF next > Len(to_process) THEN "sleep" ELSE "orders"
           /\ wake_at' = IF next > Len(to_process)
                         THEN now + MONITOR_SLEEP ELSE wake_at
    /\ UNCHANGED <<timeout_seconds, now, market_close, horizon, ids, cycle_time,
                   to_sweep, to_process>>
    /\ UNCHANGED <<rlVars, gwVars, cancel_call, demoted_at>>

\* another task calls cancel_order(id): up to its await
CancelBegin(id) ==
    /\ cancel_call.pc = "idle"
    /\ mon_pc \in {"sleep", "sweep", "orders", "check"}
    /\ orders[id] # NoOrder
    /\ IF InPending(Store, id)
       THEN cancel_call' = [pc |-> "await", id |-> id]
       ELSE UNCHANGED cancel_call              \* returns False at once
    /\ last' = PlainOp("cancel_begin", id)
    /\ UNCHANGED <<timeout_seconds, now, market_close, horizon, ids, orders,
                   pending_orders, completed_orders, order_timeouts, mon_pc,
                   wake_at, cycle_time, to_sweep, to_process>>
    /\ UNCHANGED <<rlVars, gwVars, check_call, demoted_at>>

\* api_manager.cancel_order returned: the rest of cancel_order
CancelEnd(outcome) ==
    /\ cancel_call.pc = "await"
    /\ SetStore(CancelResume(Store, cancel_call.id, outcome))
    /\ last' = Op("cancel_end", cancel_call.id, NoneData, outcome,
                  orders[cancel_call.id].status, "none", FALSE, 0, 0)
    /\ cancel_call' = NoCall
    /\ UNCHANGED <<timeout_seconds, now, market_close, horizon, ids, mon_pc,
                   wake_at, cycle_time, to_sweep, to_process>>
    /\ UNCHANGED <<rlVars, gwVars, check_call, demoted_at>>

\* the status_data of orders of quantity 1
RaceOutcomes ==
    {sd \in StatusOutcomes :
        sd.tot_ccld_qty <= 1 /\ sd.rmn_qty <= 1 /\ sd.ord_qty <= 1}

NextRace ==
    \/ MonitorBegin
    \/ \E sd \in RaceOutcomes : SweepStep(sd)
    \/ CheckBegin
    \/ \E sd \in RaceOutcomes, outcome \in CancelOutcomes : CheckEnd(sd, outcome)
    \/ \E id \in OrderIds : CancelBegin(id)
    \/ \E outcome \in CancelOutcomes : CancelEnd(outcome)
    \/ Tick

\* one or two orders, placed at time 0; the loop runs MaxRaceCycles cycles
\* from t on
RaceStarts == {0, 180}
RaceStores ==
    {PlaceOrder(EmptyStore, 1, type, 1, buy_timeout_seconds, 0, MaxTime + 1) :
        type \in OrderTypes}
    \cup {PlaceOrder(PlaceOrder(EmptyStore, 1, "BUY", 1, buy_timeout_seconds, 0,
                                MaxTime + 1),
                     2, "SELL", 1, buy_timeout_seconds, 0, MaxTime + 1)}

InitRace ==
    \E S \in RaceStores, t \in RaceStarts :
        /\ InitStore(S, t, MaxTime + 1, t + MaxRaceCycles * MONITOR_SLEEP,
                     OrderIds, "sleep")
        /\ InitLimiterAt(0)
        /\ InitKisAuth("ok", NoFile, FreshStats)
        /\ InitCalls(NoCall, OrderIds)

SpecRace == InitRace /\ [][NextRace]_vars

\* ------------------------------------------------------ the Sweeper alone
\* One cycle's _check_false_positive_filled_orders on a terminal log longer
\* than the ten entries it looks at.
SweepIds == 1..MaxSweepLog
SweepNow == SWEEP_WINDOW + MONITOR_SLEEP

\* the orders a terminal log may hold: a filled buy order inside the
\* 10-minute window, one outside it, a filled sell order, a cancelled and a
\* timed-out buy order
SweepKinds == {"filled_buy", "filled_buy_old", "filled_sell", "cancelled_buy",
               "timeout_buy"}

LoggedOrder(kind) ==
    LET type == IF kind = "filled_sell" THEN "SELL" ELSE "BUY"
        t == IF kind = "filled_buy_old" THEN 0 ELSE MONITOR_SLEEP
        o == Order(type, 1, t,
                   IF type = "BUY" THEN CurrentCandleTime(t, MaxTime + 1) ELSE NoTime)
    IN  IF kind = "cancelled_buy"
          THEN [o EXCEPT !.status = "CANCELLED", !.remaining_quantity = 0]
        ELSE IF kind = "timeout_buy"
          THEN [o EXCEPT !.status = "TIMEOUT"]
        ELSE [o EXCEPT !.status = "FILLED", !.filled_quantity = 1,
                       !.remaining_quantity = 0]

\* a log of n entries (ids 1..n, oldest first), all of them recent filled
\* buy orders but the one at position p; with room left, one more order
\* (id n + 1) is active
SweepLog(n, p, kind) ==
    [orders |-> [i \in SweepIds |->
                    IF i = p THEN LoggedOrder(kind)
                    ELSE IF i <= n THEN LoggedOrder("filled_buy")
                    ELSE IF i = n + 1
                         THEN Order("BUY", 1, MONITOR_SLEEP,
                                    CurrentCandleTime(MONITOR_SLEEP, MaxTime + 1))
                    ELSE NoOrder],
     pending |-> IF n < MaxSweepLog THEN <<n + 1>> ELSE <<>>,
     completed |-> [i \in 1..n |-> i],
     timeouts |-> [i \in SweepIds |->
                    IF i = n + 1 THEN MONITOR_SLEEP + UNKNOWN_TIMEOUT ELSE NoTime]]

\* what get_order_status can report for a re-queried order of quantity 1
SweepOutcomes ==
    {get_order_status(o, d) :
        o \in {[ok |-> TRUE, rows |-> <<>>],
               [ok |-> TRUE, rows |-> <<[ord_qty |-> 1, rmn_qty |-> 1]>>],
               [ok |-> TRUE, rows |-> <<[ord_qty |-> 0, rmn_qty |-> 0]>>]},
        d \in {[ok |-> TRUE, rows |-> <<>>],
               [ok |-> TRUE, rows |-> <<[tot_ccld_qty |-> 1, ord_qty |-> 1]>>],
               [ok |-> TRUE, rows |-> <<[tot_ccld_qty |-> 0, ord_qty |-> 1]>>]}}

NextSweeper ==
    \/ MonitorBegin
    \/ \E sd \in SweepOutcomes : SweepStep(sd)

InitSweeper ==
    \E n \in {MaxSweepLog - 1, MaxSweepLog}, p \in {2, 3, MaxSweepLog - 1},
       kind \in SweepKinds :
        /\ InitStore(SweepLog(n, p, kind), SweepNow, MaxTime + 1, SweepNow,
                     SweepIds, "sleep")
        /\ InitLimiterAt(0)
        /\ InitKisAuth("ok", NoFile, FreshStats)
        /\ InitCalls(NoCall, SweepIds)

SpecSweeper == InitSweeper /\ [][NextSweeper]_vars

\* ---------------------------------- the monitoring loop around a deadline
\* One order of quantity up to MaxQty, submitted at time 0; the monitoring
\* loop runs its first cycle at t (now, at its wall-clock deadline, or after
\* four bars) and MaxLoopCycles more; cancel_order is also called from
\* outside, between two steps of the loop.
LoopStarts == {0, buy_timeout_seconds, CANDLE_SECONDS + FOUR_CANDLES}
LoopTimeouts == TimeoutChoices \cup {1200}

\* every status_data get_order_status can report from listings with at most
\* one fill-history row
LoopOutcomes ==
    {get_order_status(o, d) : o \in OpenResps, d \in {x \in DailyResps : Len(x.rows) <= 1}}

\* cancel_order(order_id) called by another task, start to end
ExternalCancel(id, outcome) ==
    /\ mon_pc \in {"sleep", "sweep", "orders"}
    /\ orders[id] # NoOrder
    /\ LET c == CancelOrder(Store, id, outcome)
       IN  /\ ~c.called => outcome = "ok"     \* no broker call: nothing to draw
           /\ SetStore(c.store)
           /\ last' = Op("cancel", id, NoneData, IF c.called THEN outcome ELSE "-",
                         orders[id].status, "none", FALSE, 0, 0)
    /\ UNCHANGED <<timeout_seconds, now, market_close, horizon, ids, mon_pc, wake_at,
                   cycle_time, to_sweep, to_process>>
    /\ UNCHANGED <<rlVars, gwVars, raceVars>>

NextLoop ==
    \/ \E type \in OrderTypes, qty \in 1..MaxQty, ts \in LoopTimeouts :
          Submit(type, qty, ts)
    \/ MonitorBegin
    \/ \E sd \in LoopOutcomes : SweepStep(sd)
    \/ \E sd \in LoopOutcomes, outcome \in CancelOutcomes : OrderStep(sd, outcome)
    \/ \E id \in OrderIds, outcome \in CancelOutcomes : ExternalCancel(id, outcome)
    \/ Tick

InitLoop ==
    \E type \in OrderTypes, qty \in 1..MaxQty, secs \in LoopTimeouts,
       t \in LoopStarts :
        /\ InitStore(IF t = 0 THEN EmptyStore
                     ELSE PlaceOrder(EmptyStore, 1, type, qty, secs, 0, MaxTime + 1),
                     t, t + MaxTime + 1, t + MaxLoopCycles * MONITOR_SLEEP,
                     {1}, "sleep")
        /\ InitLimiterAt(0)
        /\ InitKisAuth("ok", NoFile, FreshStats)
        /\ InitCalls(NoCall, OrderIds)

SpecLoop == InitLoop /\ [][NextLoop]_vars

\* ------------------------------------------- token file and auth() alone
\* save_token, read_token and auth() called one after the other while time
\* passes and the token file is damaged or removed from outside.
TokenValidities == {0, 7200, TOKEN_VALIDITY}

\* the record of a token-file step: the token and expiry written, or the
\* token read and the file as it was
TokenOp(op, token, expiry, result) ==
    [op |-> op, token |-> token, expiry |-> expiry, result |-> result,
     file_token |-> kis.file_token, file_expiry |-> kis.file_expiry,
     file_readable |-> kis.file_readable]

\* save_token(my_token, my_expired) with the next token of the endpoint
SaveToken(validity) ==
    /\ gw.pc = "idle" /\ kis.issued < MaxTokens
    /\ LET my_token == kis.issued + 1
       IN  /\ kis' = save_token([kis EXCEPT !.issued = my_token], my_token,
                                clock + validity)
           /\ gw_last' = TokenOp("save", my_token, clock + validity, 0)
    /\ UNCHANGED <<clock, app_keys, api_stats, gw>>
    /\ UNCHANGED <<ordVars, rlVars, raceVars>>

\* read_token()
ReadToken ==
    /\ gw.pc = "idle"
    /\ gw_last' = TokenOp("read", 0, 0, read_token(kis, clock))
    /\ UNCHANGED <<clock, app_keys, kis, api_stats, gw>>
    /\ UNCHANGED <<ordVars, rlVars, raceVars>>

\* the file is truncated or overwritten with something else
DamageFile ==
    /\ gw.pc = "idle" /\ kis.issued < MaxTokens
    /\ kis.file_token # 0 /\ kis.file_readable
    /\ kis' = [kis EXCEPT !.file_readable = FALSE]
    /\ gw_last' = TokenOp("damage", 0, 0, 0)
    /\ UNCHANGED <<clock, app_keys, api_stats, gw>>
    /\ UNCHANGED <<ordVars, rlVars, raceVars>>

\* the file is deleted
RemoveFile ==
    /\ gw.pc = "idle" /\ kis.issued < MaxTokens
    /\ kis.file_token # 0
    /\ kis' = [kis EXCEPT !.file_token = 0, !.file_expiry = 0,
                          !.file_readable = TRUE]
    /\ gw_last' = TokenOp("remove", 0, 0, 0)
    /\ UNCHANGED <<clock, app_keys, api_stats, gw>>
    /\ UNCHANGED <<ordVars, rlVars, raceVars>>

NextAuth ==
    \/ \E validity \in TokenValidities : SaveToken(validity)
    \/ ReadToken
    \/ DamageFile
    \/ RemoveFile
    \/ \E aresp \in AuthRespFuns : AuthCall(aresp)
    \/ \E t \in ClockPoints : GwTick(t)

InitAuth ==
    \E keys \in KeyConfigs, K \in InitKis :
        /\ InitNoOrders("off")
        /\ InitLimiterAt(0)
        /\ InitKisAuth(keys, K, FreshStats)
        /\ InitCalls(NoCall, OrderIds)

SpecAuth == InitAuth /\ [][NextAuth]_vars

\* ===================================================================== claims
Active(id) == id \in SeqToSet(pending_orders)
Completed(id) == id \in SeqToSet(completed_orders)
Age(id) == now - orders[id].timestamp
AbsentFromBoth == ~last.in_open /\ last.rows = 0

\* C1: reconciliation sets an order to FILLED only if the summed fill-history
\* quantity is > 0 and equals the broker-echoed order quantity, the echoed
\* quantity equals the locally requested quantity, and the order is not
\* flagged cancelled (an echoed quantity that is missing or 0 included).
C1_NoFalseFilled ==
    (last.op = "check" /\ last.before # "FILLED" /\ orders[1].status = "FILLED")
    => /\ last.fill_sum > 0
       /\ last.fill_sum = last.sd.ord_qty
       /\ last.sd.ord_qty = orders[1].quantity
       /\ last.sd.cncl_yn # "Y"

\* C2: under every interleaving of concurrent callers of the rate limiter,
\* the recorded times of two consecutive granted calls differ by at least
\* min_interval.
C2_MinInterval ==
    \A i \in 1..(Len(grants) - 1) : grants[i + 1] - grants[i] >= MIN_API_INTERVAL

\* three grants, the second made by a caller that slept out the interval
\* while another caller was waiting for the lock
C2_Witness ==
    /\ Len(grants) = 3
    /\ grants[2] = grants[1] + MIN_API_INTERVAL
    /\ grants[3] = grants[2] + MIN_API_INTERVAL

\* C3 (as claimed): every order in the active store is no older than
\* max(wall_clock_timeout, 4 x bar_minutes) + one monitoring period.
TerminalBound(id) == Max(timeout_seconds[id], FOUR_CANDLES) + MONITOR_SLEEP

C4_TimeoutForced ==
    (last.op = "order" /\ last.rule = "wall")
    => /\ ~Active(last.id)
       /\ order_timeouts[last.id] = NoTime
       /\ Completed(last.id)
       /\ last.cancel # "ok" => orders[last.id].status = "TIMEOUT"

C4_Witness ==
    /\ last.op = "order" /\ last.rule = "wall" /\ last.cancel = "raises"
    /\ orders[last.id].status = "TIMEOUT" /\ Completed(last.id) /\ ~Active(last.id)

\* C5: an order absent from both listings less than 5 minutes after its
\* creation keeps its status and stays in the active store.
C5_UnknownDefers ==
    (last.op = "check" /\ AbsentFromBoth /\ Age(1) < UNKNOWN_TIMEOUT)
    => /\ Active(1)
       /\ orders[1].status = last.before

\* C6: an order absent from both listings more than 5 minutes after its
\* creation is set to TIMEOUT (not CANCELLED) and moved to the terminal log.
C6_UnknownTimesOut ==
    (last.op = "check" /\ AbsentFromBoth /\ Age(1) > UNKNOWN_TIMEOUT)
    => /\ orders[1].status = "TIMEOUT"
       /\ Completed(1) /\ ~Active(1)

\* C7: a logical gateway call answered by the rate-limit error on every
\* attempt makes exactly max_retries + 1 requests and then returns a failure;
\* whatever the answers, the requests of one call, the replay after a
\* re-authentication not counted, never exceed max_retries + 1.
C7_AttemptBudget ==
    /\ gw.requests - gw.replays <= MAX_RETRIES + 1
    /\ (gw.pc = "done" /\ gw.requests > 0 /\ gw.only_rate)
          => /\ gw.requests = MAX_RETRIES + 1
             /\ gw.result # "ok"

C7_Witness ==
    /\ gw.pc = "done" /\ gw.only_rate
    /\ gw.requests = MAX_RETRIES + 1
    /\ Len(gw.sleeps) = MAX_RETRIES
    /\ gw.result = "resp"

\* C8 (as claimed): within one logical gateway call a token-expired answer
\* triggers at most one re-authentication, however many token-expired
\* answers follow, and a replay happens only after a re-authentication.
C8_SingleReauth ==
    /\ gw.reauths <= 1
    /\ gw.replays <= gw.reauths

\* C9 (as claimed): whenever re-authentication is triggered, by the
\* proactive-refresh age or by a token-expired answer, a new token is
\* requested from the endpoint and, on success, replaces the persisted token
\* and the authorization header, even if the persisted token has not expired.
C9_FullReauth ==
    (gw_last.op = "attempt" /\ (gw_last.proactive \/ gw_last.reauth))
    => /\ gw_last.token_requests > 0
       /\ gw_last.auth_ok => /\ kis.issued > gw_last.issued_before
                             /\ kis.file_token = kis.issued
                             /\ kis.authorization = kis.issued

\* C10: an application-level error that is neither the rate-limit nor the
\* token-expired code ends the call with that failure at once: no further
\* request, no backoff sleep and no re-authentication follow the answer.
C10_OtherErrorImmediate ==
    (gw_last.op = "attempt" /\ gw_last.resp = "200_other")
    => /\ gw.pc = "done" /\ gw.result = "resp" /\ gw.from = "main"
       /\ gw.requests = gw_last.requests_before + 1
       /\ Len(gw.sleeps) = gw_last.sleeps_before
       /\ gw.reauths = gw_last.reauths_before
       /\ gw.replays = 0

C10_Witness ==
    /\ gw_last.op = "attempt" /\ gw_last.resp = "200_other"
    /\ gw_last.attempt = 0
    /\ gw.pc = "done" /\ gw.result = "resp" /\ gw.requests = 1

\* C11: a gateway attempt whose request raises a transport error is retried,
\* every attempt passing through the rate limiter, after a sleep of
\* base_delay * 2^attempt, as long as attempt < max_retries; when the attempt
\* numbered max_retries raises, the call returns a failure without sleeping
\* and makes no further attempt.
C11_TransportRetry ==
    (gw_last.op = "attempt" /\ gw_last.resp = "exception")
    => /\ gw.acquires = gw_last.attempt + 1
       /\ gw.requests = gw_last.requests_before + 1
       /\ IF gw_last.attempt < MAX_RETRIES
          THEN /\ gw.pc = "loop" /\ gw.attempt = gw_last.attempt + 1
               /\ Len(gw.sleeps) = gw_last.sleeps_before + 1
               /\ gw.sleeps[Len(gw.sleeps)] = RETRY_DELAY_BASE * (2 ^ gw_last.attempt)
          ELSE /\ gw.pc = "done" /\ gw.result = "none"
               /\ Len(gw.sleeps) = gw_last.sleeps_before

\* four attempts that all raised: three sleeps of 1.5 s, 3 s and 6 s, then
\* the failure
C11_Witness ==
    /\ gw_last.op = "attempt" /\ gw_last.resp = "exception"
    /\ gw_last.attempt = MAX_RETRIES
    /\ gw.pc = "done" /\ gw.result = "none" /\ gw.requests = MAX_RETRIES + 1
    /\ gw.sleeps = <<RETRY_DELAY_BASE, 2 * RETRY_DELAY_BASE, 4 * RETRY_DELAY_BASE>>

\* ---- reconciliation, continued
\* the would-be FILLED condition of _check_order_status on the last status_data
WouldBeFilled ==
    /\ ~last.sd.none
    /\ last.sd.rmn_qty = 0
    /\ last.sd.tot_ccld_qty = orders[1].quantity
    /\ last.sd.tot_ccld_qty > 0

\* C12: for an order found in the open-orders listing, the filled quantity
\* that reconciliation reports and records is the sum of the executed
\* quantities of its fill-history rows (0 without rows or without an answer
\* of the fill-history query), never ordered minus remaining; with no rows
\* the order stays PENDING, active, with filled quantity 0.
C12_FilledFromHistory ==
    (last.op = "check" /\ last.in_open)
    => /\ ~last.sd.none => /\ last.sd.tot_ccld_qty = last.fill_sum
                           /\ orders[1].filled_quantity = last.fill_sum
       /\ last.rows = 0 => /\ orders[1].status = "PENDING"
                           /\ orders[1].filled_quantity = 0
                           /\ Active(1)

\* the open-orders row says 2 ordered, 1 remaining, and there is no fill row:
\* filled stays 0 where the subtraction would give 1
C12_Witness ==
    /\ last.op = "check" /\ last.in_open /\ last.rows = 0
    /\ last.sd.ord_qty = 2 /\ last.sd.rmn_qty = 1 /\ orders[1].quantity = 2
    /\ orders[1].filled_quantity = 0 /\ orders[1].status = "PENDING" /\ Active(1)

\* C13 (as claimed): a buy order found in open-orders whose fill-history rows
\* sum to the requested quantity, the echoed order quantity being the
\* requested quantity, is classified FILLED with that filled quantity and
\* leaves the active store, whatever remaining quantity the row reports.
C13_FilledWhileListed ==
    (/\ last.op = "check" /\ last.in_open
     /\ orders[1].order_type = "BUY"
     /\ last.fill_sum = orders[1].quantity
     /\ last.sd.ord_qty = orders[1].quantity)
    => /\ orders[1].status = "FILLED"
       /\ orders[1].filled_quantity = orders[1].quantity
       /\ ~Active(1) /\ Completed(1)

\* C14 (as claimed): an order found in the open-orders listing is PENDING or
\* PARTIAL and active after the reconciliation step of that poll.
C14_ListedStaysOpen ==
    (last.op = "check" /\ last.in_open)
    => /\ orders[1].status \in {"PENDING", "PARTIAL"}
       /\ Active(1)

\* C15: an order absent from open-orders whose fill-history rows sum to 0
\* stays active with its status and filled quantity 0; and whenever the
\* fill-history holds any row of the order, reconciliation does not make it
\* CANCELLED.
C15_ZeroFillStaysOpen ==
    /\ (last.op = "check" /\ ~last.in_open /\ last.rows > 0 /\ last.fill_sum = 0)
       => /\ Active(1) /\ ~Completed(1)
          /\ orders[1].status = last.before
          /\ orders[1].filled_quantity = 0
    /\ (last.op = "check" /\ last.rows > 0) => orders[1].status # "CANCELLED"

\* two rows of executed quantity 0, one of them without an order quantity
C15_Witness ==
    /\ last.op = "check" /\ ~last.in_open /\ last.rows = 2 /\ last.fill_sum = 0
    /\ last.sd.actual_unfilled
    /\ Active(1) /\ orders[1].status = "PENDING" /\ orders[1].filled_quantity = 0

\* C16: a second reconciliation against the same two listings leaves the
\* order (status, filled and remaining quantity) and the four containers as
\* the first left them.
C16_Idempotent ==
    last.op = "recheck" => Store = last.prev

\* a partial fill reconciled twice, the second time one period later
C16_Witness ==
    /\ last.op = "recheck" /\ last.before = "PARTIAL"
    /\ orders[1].status = "PARTIAL" /\ orders[1].filled_quantity = 1
    /\ orders[1].remaining_quantity = 1 /\ Active(1)
    /\ now = orders[1].timestamp + 2 * MONITOR_SLEEP

PlaceOps == {"place_buy", "place_sell"}

\* C18 (as claimed): a place_buy / place_sell with quantity <= 0, or with a
\* negative price on a non-market order, sends no order request, creates no
\* order in the active store or the terminal log and returns no order id.
C18_InvalidRejected ==
    (/\ last.op \in PlaceOps
     /\ (last.quantity <= 0 \/ (last.price < 0 /\ ~last.market)))
    => /\ ~last.sent
       /\ last.returned = 0
       /\ Store = last.prev

Usable(order_data) ==
    {i \in 1..Len(possible_orgno_fields) :
        order_data[possible_orgno_fields[i]] \notin {"absent", ""}}

FirstUsable(order_data) ==
    CHOOSE i \in Usable(order_data) : \A j \in Usable(order_data) : i <= j

\* C21: a cancel that found the order's row in the open-orders listing sends
\* the broker the value of the first candidate field (krx_fwdg_ord_orgno,
\* ord_orgno, ord_gno_brno, orgn_odno, in this order) that is present and
\* non-empty; when no candidate is, it returns a failure and the broker's
\* cancel operation is not invoked.
C21_RoutingField ==
    (last.op = "api_cancel" /\ last.listing = "target") =>
        IF Usable(last.order_data) = {}
        THEN ~last.result.success /\ ~last.invoked
        ELSE /\ last.invoked
             /\ last.ord_orgno =
                  last.order_data[possible_orgno_fields[FirstUsable(last.order_data)]]

C21_Witness ==
    /\ last.op = "api_cancel" /\ last.listing = "target"
    /\ last.order_data["krx_fwdg_ord_orgno"] = ""
    /\ last.order_data["ord_orgno"] = "06010"
    /\ last.order_data["ord_gno_brno"] = "00950"
    /\ last.invoked /\ last.ord_orgno = "06010"
    /\ last.result.success

\* ---- the event loop
\* C22: status changes of one order are serialized: while a cancel_order
\* from outside and the monitoring cycle's check of the same order overlap,
\* an order that is in the terminal log keeps the status it was logged with
\* for as long as it stays there.
C22_TerminalStatusKept ==
    [][\A id \in OrderIds :
          (Completed(id) /\ Completed(id)') =>
              orders'[id].status = orders[id].status]_vars

\* C23: an exception in one order's iteration of a monitoring cycle (the
\* order vanished from the active store, or its timeout handling raised)
\* does not end the cycle: the iterations that have ended are always the
\* orders of the start-of-cycle list up to the loop's position, and when the
\* cycle is over they are the whole list.
C23_CycleNotAborted ==
    /\ (mon_pc = "sleep" /\ to_process # <<>>) => check_call.done = to_process
    /\ (mon_pc = "orders" /\ check_call.idx > 1) =>
          check_call.done = SubSeq(to_process, 1, check_call.idx - 1)

C23_Witness ==
    /\ mon_pc = "sleep" /\ Len(to_process) = 2
    /\ check_call.done = to_process
    /\ to_process[1] \in check_call.raised
    /\ last.op = "check_end" /\ last.id = to_process[2]
    /\ last.before = "PENDING"

\* ---- the Sweeper
\* C24: a Sweeper demotion at time t leaves the order in the active store
\* with status PENDING and a deadline of at least t + 30 s; until t + 30 s
\* neither the wall-clock rule nor the bar-count rule is due for it, and no
\* timeout rule fires for an order demoted less than 30 s ago.
C24_DemotionFloor ==
    /\ (last.op = "sweep" /\ IsFalsePositive(last.sd)) =>
          /\ Active(last.id) /\ ~Completed(last.id)
          /\ orders[last.id].status = "PENDING"
          /\ demoted_at[last.id] = cycle_time
          /\ order_timeouts[last.id] >= cycle_time + RESTORE_FLOOR
    /\ \A id \in OrderIds :
          (Active(id) /\ demoted_at[id] # NoTime) =>
              /\ now < demoted_at[id] + RESTORE_FLOOR
              /\ ~WallClockDue(order_timeouts[id], now)
              /\ ~CandleDue(orders[id], now)
    /\ (last.op = "order" /\ last.rule # "none") => demoted_at[last.id] = NoTime

\* 27 s after a demotion that got the floor (the order was more than 150 s
\* old), the order is still active and not due
C24_Witness ==
    /\ Active(1) /\ orders[1].status = "PENDING"
    /\ demoted_at[1] # NoTime
    /\ demoted_at[1] - orders[1].timestamp > RESTORE_BASE - RESTORE_FLOOR
    /\ now = demoted_at[1] + RESTORE_FLOOR - MONITOR_SLEEP
    /\ order_timeouts[1] = demoted_at[1] + RESTORE_FLOOR
    /\ last.op = "order" /\ last.rule = "none"

\* a terminal-log entry the Sweeper may look at in a cycle that starts at t
Sweepable(id, t) ==
    /\ id \in SeqToSet(LastN(completed_orders, SWEEP_LAST))
    /\ orders[id].status = "FILLED" /\ orders[id].order_type = "BUY"
    /\ t - orders[id].timestamp <= SWEEP_WINDOW

\* the broker reports the order as not filled and not cancelled
ReportsUnfilled(sd) ==
    /\ ~sd.none /\ sd.cncl_yn # "Y"
    /\ (sd.tot_ccld_qty = 0 \/ sd.rmn_qty > 0 \/ sd.actual_unfilled)

\* the start of a cycle: the orders to re-query are at most 10, each a
\* filled buy order of the last 10 terminal entries, at most 10 minutes old
SweepBeginStep ==
    last'.op = "begin" =>
        /\ Len(to_sweep') <= SWEEP_LAST
        /\ \A i \in 1..Len(to_sweep') : Sweepable(to_sweep'[i], now)

\* one re-query: of an order chosen at the start of the cycle and still a
\* filled buy order in the terminal log; it is demoted exactly when the
\* broker reports it unfilled and not cancelled, and no other order changes
SweepQueryStep ==
    last'.op = "sweep" =>
        LET id == last'.id
        IN  /\ id = Head(to_sweep) /\ to_sweep' = Tail(to_sweep)
            /\ Completed(id) /\ ~Active(id)
            /\ orders[id].status = "FILLED" /\ orders[id].order_type = "BUY"
            /\ cycle_time - orders[id].timestamp <= SWEEP_WINDOW
            /\ IF ReportsUnfilled(last'.sd)
               THEN /\ orders'[id] = [orders[id] EXCEPT !.status = "PENDING"]
                    /\ id \in SeqToSet(pending_orders')
                    /\ id \notin SeqToSet(completed_orders')
               ELSE /\ orders'[id] = orders[id]
                    /\ completed_orders' = completed_orders
                    /\ pending_orders' = pending_orders
            /\ \A j \in DOMAIN orders \ {id} :
                  /\ orders'[j] = orders[j]
                  /\ order_timeouts'[j] = order_timeouts[j]
                  /\ (j \in SeqToSet(pending_orders')) = Active(j)
                  /\ (j \in SeqToSet(completed_orders')) = Completed(j)

\* C25: the Sweeper re-queries only filled buy orders that are in the
\* terminal log, at most 10 minutes old and among its 10 most recent
\* entries, at most 10 of them per cycle; it demotes one exactly when the
\* broker reports (filled = 0 or remaining > 0 or actually unfilled) and not
\* cancelled, and changes no other order.
C25_SweeperScope == [][SweepBeginStep /\ SweepQueryStep]_vars

\* ten re-queries and ten demotions in one cycle, the two oldest entries of
\* a log of twelve filled buy orders left alone
C25_Witness ==
    /\ last.op = "sweep" /\ to_sweep = <<>>
    /\ Len(pending_orders) = SWEEP_LAST
    /\ Len(completed_orders) = 2
    /\ \A i \in 1..2 : orders[completed_orders[i]].status = "FILLED"
                       /\ orders[completed_orders[i]].order_type = "BUY"
                       /\ cycle_time - orders[completed_orders[i]].timestamp
                            <= SWEEP_WINDOW

\* ---- the monitoring loop around a deadline
StatusEdges ==
    {<<"PENDING", "PARTIAL">>, <<"PENDING", "FILLED">>, <<"PENDING", "CANCELLED">>,
     <<"PENDING", "TIMEOUT">>, <<"PARTIAL", "FILLED">>, <<"PARTIAL", "CANCELLED">>,
     <<"PARTIAL", "TIMEOUT">>}

LastDecision == CheckDecision(orders[last.id], last.sd, now)

\* C30: a monitoring step reconciles the order first and evaluates the
\* timeout rules only if the order is still active then: when the
\* reconciliation makes the order terminal no rule fires and no cancel is
\* requested, whatever its deadline and its bar count; when a rule fires,
\* the order already carries the quantities the broker reported.
C30_ReconcileFirst ==
    (last.op = "order" /\ last.before \in {"PENDING", "PARTIAL"}) =>
        /\ LastDecision.moved =>
              /\ last.rule = "none" /\ last.cancel = "-"
              /\ Completed(last.id)
              /\ orders[last.id].status = LastDecision.order.status
        /\ last.rule # "none" =>
              /\ ~LastDecision.moved
              /\ ~last.sd.none =>
                    /\ orders[last.id].filled_quantity = last.sd.tot_ccld_qty
                    /\ orders[last.id].remaining_quantity = last.sd.rmn_qty

\* the order is found filled in a cycle that starts after its wall-clock
\* deadline and after its fourth bar
C30_Witness ==
    /\ last.op = "order" /\ last.before = "PENDING"
    /\ orders[last.id].status = "FILLED"
    /\ last.cancel = "-"
    /\ cycle_time > orders[last.id].timestamp + timeout_seconds[last.id]
    /\ CandleDue(orders[last.id], cycle_time)

\* C28: a call of auth() that returns failure leaves the token file, the
\* loaded credential (_TRENV), the Authorization header and the time of the
\* last authentication as they were before the call.
C28_FailedAuthKeepsState ==
    [][(gw_last'.op = "auth" /\ ~gw_last'.auth_ok) =>
          /\ kis'.file_token = kis.file_token
          /\ kis'.file_expiry = kis.file_expiry
          /\ kis'.TRENV = kis.TRENV
          /\ kis'.authorization = kis.authorization
          /\ kis'.last_auth_time = kis.last_auth_time]_vars

\* C27: read_token returns the stored token only when the file exists, can
\* be read and records an expiry strictly later than now; with no file, an
\* unreadable file or an expiry that is now or earlier it returns nothing;
\* and a read_token that directly follows a save_token whose expiry is still
\* ahead returns the token that was saved.
C27_ReadReturnsStored ==
    gw_last.op = "read" =>
        IF gw_last.file_token # 0 /\ gw_last.file_readable
           /\ gw_last.file_expiry > clock
        THEN gw_last.result = gw_last.file_token
        ELSE gw_last.result = 0

C27_RoundTrip ==
    (gw_last.op = "save" /\ gw_last'.op = "read" /\ gw_last.expiry > clock')
        => gw_last'.result = gw_last.token

C29_DeclineCarried ==
    (/\ last.op \in {"api_buy", "api_sell", "api_cancel"}
     /\ last.invoked
     /\ last.answer.kind = "row"
     /\ last.answer.row.rt_cd # "0")
        => /\ ~last.result.success
           /\ last.result.error_code = last.answer.row.rt_cd
           /\ last.result.detail = last.answer.row.msg1

\* C37: one call of auth() sends at most one token request to the endpoint
\* (it does not enter itself again while it builds that request).
C37_OneTokenRequest ==
    gw_last.op = "auth" => gw_last.token_requests <= 1

\* C36: within one logical call of _url_fetch the rate limiter has been
\* acquired at least once for every HTTP request sent so far: the main
\* requests, the replays after a token-expired answer, the hashkey sub-calls
\* and the token requests of the step just taken.
C36_AcquirePerRequest ==
    gw.pc # "idle" =>
        gw.acquires >= gw.requests + gw.hashes
                       + (IF gw_last.op = "attempt"
                          THEN gw_last.token_requests ELSE 0)

\* C33: the step that ends a logical call of _url_fetch counts its outcome:
\* success_calls goes up by one when the call returns a successful response
\* (from the main request or from the replay), and an error counter
\* (other_errors or rate_limit_errors) goes up by one when it ends in failure.
C33_OutcomeCounted ==
    [][(gw.pc = "loop" /\ gw'.pc = "done") =>
          IF gw'.result = "ok"
          THEN api_stats'.success_calls = api_stats.success_calls + 1
          ELSE \/ api_stats'.other_errors = api_stats.other_errors + 1
               \/ api_stats'.rate_limit_errors
                      = api_stats.rate_limit_errors + 1]_vars

\* C32: an order whose status is PARTIAL has a filled quantity above zero and
\* below its quantity, and its filled and remaining quantities add up to its
\* quantity.
C32_PartialConsistent ==
    \A id \in OrderIds :
        orders[id].status = "PARTIAL" =>
            /\ 0 < orders[id].filled_quantity
            /\ orders[id].filled_quantity < orders[id].quantity
            /\ orders[id].filled_quantity + orders[id].remaining_quantity
                   = orders[id].quantity

\* C39: no step lowers the recorded filled_quantity of an order that is in
\* pending_orders before and after the step.
C39_FilledMonotone ==
    [][\A id \in OrderIds :
          (id \in SeqToSet(pending_orders) /\ id \in SeqToSet(pending_orders'))
              => orders'[id].filled_quantity >= orders[id].filled_quantity]_vars

\* C34: between operations every order that was submitted is in exactly one
\* of pending_orders and completed_orders, no id is twice in either, and
\* order_timeouts has an entry exactly for the ids in pending_orders.
NoRepeat(seq) == \A i, j \in 1..Len(seq) : seq[i] = seq[j] => i = j

C34_StorePartition ==
    /\ \A id \in OrderIds :
          /\ orders[id] # NoOrder =>
                (id \in SeqToSet(pending_orders)) # (id \in SeqToSet(completed_orders))
          /\ orders[id] = NoOrder =>
                id \notin SeqToSet(pending_orders) \cup SeqToSet(completed_orders)
          /\ (order_timeouts[id] # NoTime) = (id \in SeqToSet(pending_orders))
    /\ NoRepeat(pending_orders) /\ NoRepeat(completed_orders)

\* the Sweeper has just put a FILLED order back into pending_orders
C34_Witness ==
    /\ last.op = "sweep" /\ last.before = "FILLED"
    /\ last.id \in SeqToSet(pending_orders)
    /\ orders[last.id].status = "PENDING"
    /\ order_timeouts[last.id] # NoTime

\* C35: on_order_filled is called at most once for an order: it is not
\* called for an order that the Sweeper has put back into pending_orders,
\* whose fill was reported when it was classified FILLED the first time.
C35_FillReportedOnce ==
    (last.op = "order" /\ last.filled_cb) => demoted_at[last.id] = NoTime

\* C40: when a timeout rule of the monitoring loop fires for an order,
\* handle_order_timeout is called exactly once for it, whether the cancel
\* succeeded or failed.
C40_TimeoutReportedOnce ==
    (last.op = "order" /\ last.rule # "none") => last.timeout_cbs = 1

\* C31: in an iteration of the monitoring loop, a buy order that is still
\* active after reconciliation and whose wall-clock deadline has not passed
\* is taken out by the bar-count rule (CANCELLED, or TIMEOUT when the cancel
\* fails) exactly when the real time is at or after its decision bar plus
\* 12 minutes; the bar-count rule never fires for a sell order.
C31_BarsElapsed ==
    last.op = "order" =>
        LET o == orders[last.id]
            elapsed == /\ o.order_type = "BUY"
                       /\ o.order_3min_candle_time # NoTime
                       /\ now >= o.order_3min_candle_time + FOUR_CANDLES
        IN  /\ last.rule = "candle" =>
                /\ elapsed
                /\ o.status \in {"CANCELLED", "TIMEOUT"}
                /\ last.id \notin SeqToSet(pending_orders)
            /\ (last.rule = "none" /\ last.id \in SeqToSet(pending_orders)) => ~elapsed
            /\ o.order_type = "SELL" => last.rule # "candle"

C31_Witness ==
    /\ last.op = "order" /\ last.rule = "candle"
    /\ orders[last.id].order_type = "BUY"
    /\ now = orders[last.id].order_3min_candle_time + FOUR_CANDLES
    /\ orders[last.id].status = "TIMEOUT"

\* C38: one call of the gateway for an order placement makes the broker
\* take at most one order: after a request that the broker took and whose
\* answer was lost, no later request of the same call is taken as well.
C38_OneBrokerOrder ==
    [][(gw_last.op = "attempt" /\ gw_last.lost)
          => ~(gw_last'.op = "attempt" /\ gw_last'.resp = "200_ok")]_vars

====
